---- MODULE Spec2Model ----
(***************************************************************************)
(* A model of raiden-rs: procedural mesh generation (src/mesh.rs,          *)
(* src/primitives.rs), instance batching and buffer growth                 *)
(* (src/renderer.rs, src/mesh.rs) and the pan/orbit camera                 *)
(* (src/camera.rs).                                                        *)
(*                                                                         *)
(* Three specifications share the variables:                               *)
(*   MeshSpec    one run of Mesh::new_cube, Mesh::new_tetrahedron or       *)
(*               Mesh::new_sphere(divisions), one loop iteration a step;   *)
(*   RenderSpec  the application filling Renderer::commands and calling    *)
(*               Renderer::render_mesh / render_outline_mesh;              *)
(*   CameraSpec  calls of the PanOrbitCamera operations.                   *)
(*                                                                         *)
(* Number representations.                                                 *)
(*   usize  A value v is held as an integer r with v = r mod 2^w (w the    *)
(*          pointer width): r >= 0 is v itself, r < 0 is the wrapped value *)
(*          2^w + r.  +, - and * on the representatives are exact mod 2^w; *)
(*          ULt compares the values they stand for.                        *)
(*   u16    x % 65536.                                                     *)
(*   f32    fixed point, in thousandths (10.0 is 10000), plus NaN.         *)
(*   Vec    Renderer::commands and the instance lists are run-length       *)
(*          encoded (see PushRun).                                         *)
(***************************************************************************)
EXTENDS Integers, Sequences, FiniteSets, TLC

\* ------------------------------------------------------------------ bounds

\* Largest `divisions` Mesh::new_sphere is called with.
MaxDivisions == 5

\* Elements a Vec<u16> can hold before the allocator fails.
MaxVecLen == 400

\* Most draw commands the application holds in Renderer::commands at once.
MaxCommands == 301

\* ------------------------------------------------------------- variables

VARIABLES
    \* Mesh construction (mesh.rs)
    kind,             \* which constructor runs: a MeshType
    divisions,        \* new_sphere's argument
    overflow_checks,  \* the build: TRUE panics on usize overflow, FALSE wraps
    pc,               \* position in the constructor
    idx, i, j,        \* new_sphere's locals
    top_index, bottom_index,
    vertices, indices, edge_indices,
    \* Renderer (renderer.rs)
    commands,         \* Renderer::commands: Vec<DrawCommand>
    meshes,           \* Renderer::meshes: HashMap<MeshType, Mesh>, the instance buffers
    call,             \* the last mesh renderer called by itself and what it handed to the GPU
    \* Camera (camera.rs)
    camera,           \* the PanOrbitCamera
    cam_call,         \* the last camera operation and its argument
    \* Application (main.rs)
    is_surface_configured, is_scene_initialized,    \* State's flags
    surface_config,   \* renderer.surface_config: << width, height >>
    mouse_state,      \* State::mouse_state
    uniforms,         \* what the uniform buffer holds
    frame,            \* the pass the last event drew, if it drew one
    \* Commands (commands.rs)
    builder,          \* the DrawCommandBuilder being chained
    built,            \* what build() returned, once it did
    \* The touch screen (the source of WindowEvent::Touch)
    fingers,          \* the ids of the touches that are in contact
    touch_event       \* the last WindowEvent::Touch, where touches are followed

\* No touch event is followed.
NoTouch == [id |-> 0, phase |-> "none"]

meshVars == <<kind, divisions, overflow_checks, pc, idx, i, j,
              top_index, bottom_index, vertices, indices, edge_indices>>

renderVars == <<commands, meshes, call>>

camVars == <<camera, cam_call>>

appVars == <<is_surface_configured, is_scene_initialized, surface_config,
             mouse_state, uniforms, frame, builder, built, fingers, touch_event>>

vars == <<meshVars, renderVars, camVars, appVars>>

\* ------------------------------------------------------------ mesh types

MeshType == {"Triangle", "Cube", "Tetrahedron", "Sphere"}

\* ------------------------------------------------------- integer helpers

\* usize `a < b` on representatives.
ULt(a, b) ==
    IF (a < 0) = (b < 0) THEN a < b ELSE b < 0

\* A conversion to eight bits.
AsU8(x) == x % 256

\* `x as u16`
AsU16(x) == x % 65536

\* seq[k] for a 0-based index k
At(seq, k) == seq[k + 1]

\* ------------------------------------------------------------- vertices

\* Vertex::default(): position ZERO; a vertex here is what wrote it.
DefaultVertex == [kind |-> "default", i |-> 0, j |-> 0]

WrittenVertex(what, a, b) == [kind |-> what, i |-> a, j |-> b]

\* ------------------------------------------------------- primitives.rs

CUBE_N_VERTICES == 8

CUBE_INDICES ==
    << 0, 1, 3,   0, 3, 2,
       5, 4, 6,   5, 6, 7,
       1, 5, 7,   1, 7, 3,
       4, 0, 2,   4, 2, 6,
       4, 5, 1,   4, 1, 0,
       7, 6, 2,   7, 2, 3 >>

CUBE_EDGES ==
    << 0, 1,  1, 3,  3, 2,  2, 0,
       4, 5,  5, 7,  7, 6,  6, 4,
       0, 4,  1, 5,  2, 6,  3, 7 >>

\* ------------------------------------------------- Mesh::new_tetrahedron

TETRA_N_VERTICES == 4

TETRA_EDGE_INDICES ==
    << 0, 1,  1, 2,  2, 0,  0, 3,  1, 3,  2, 3 >>

TETRA_INDICES ==
    << 0, 1, 2,   0, 2, 3,   2, 1, 3,   1, 0, 3 >>

\* --------------------------------------------------------- Mesh::new_cube

NewCube ==
    /\ kind = "Cube"
    /\ pc = "start"
    /\ vertices' = [k \in 1..CUBE_N_VERTICES |-> WrittenVertex("cube", k - 1, 0)]
    /\ indices' = CUBE_INDICES
    /\ edge_indices' = CUBE_EDGES
    /\ pc' = "done"
    /\ UNCHANGED <<renderVars, camVars, appVars, kind, divisions, overflow_checks, idx, i, j, top_index, bottom_index>>

NewTetrahedron ==
    /\ kind = "Tetrahedron"
    /\ pc = "start"
    /\ vertices' = [k \in 1..TETRA_N_VERTICES |-> WrittenVertex("tetrahedron", k - 1, 0)]
    /\ indices' = TETRA_INDICES
    /\ edge_indices' = TETRA_EDGE_INDICES
    /\ pc' = "done"
    /\ UNCHANGED <<renderVars, camVars, appVars, kind, divisions, overflow_checks, idx, i, j, top_index, bottom_index>>

\* ------------------------------------------------------- Mesh::new_sphere

longitude == 2 * divisions

latitude == divisions

\* A vertex vector one ring too long.
NVerticesOneRingMore == 2 + latitude * longitude

\* let n_vertices = 2 + (latitude - 1) * longitude;
NVertices == 2 + (latitude - 1) * longitude

\* let n_indices = 6 * longitude * (latitude - 1);
NIndices == 6 * longitude * (latitude - 1)

\* let n_edge_indices = 2 * longitude * ((latitude - 1) + longitude + (latitude - 2));
NEdgeIndices == 2 * longitude * ((latitude - 1) + longitude + (latitude - 2))

\* The usize subtractions of lines 240-244 that go below zero: `latitude - 1`
\* when latitude = 0, `latitude - 2` when latitude < 2.
CountsUnderflow == latitude < 2

\* The end of `0 .. (latitude - 2)`, a usize.
MiddleRows == latitude - 2

\* Vec::push of `items`: the allocation fails past MaxVecLen.
CanPush(vec, items) == Len(vec) + Len(items) <= MaxVecLen

\* Lines 235-258: the counts, the vertex vector, the top pole.
SphereBegin ==
    /\ kind = "Sphere"
    /\ pc = "start"
    /\ IF overflow_checks /\ CountsUnderflow
       THEN /\ pc' = "panic"
            /\ UNCHANGED <<vertices, idx, i, j, top_index>>
       ELSE IF NVertices < 0 \/ NVertices > MaxVecLen
       THEN /\ pc' = "abort"
            /\ UNCHANGED <<vertices, idx, i, j, top_index>>
       ELSE IF NVertices = 0
       THEN /\ pc' = "panic"
            /\ UNCHANGED <<vertices, idx, i, j, top_index>>
       ELSE /\ vertices' = [[k \in 1..NVertices |-> DefaultVertex]
                               EXCEPT ![1] = WrittenVertex("top_pole", 0, 0)]
            /\ top_index' = 0
            /\ idx' = 1
            /\ i' = 1
            /\ j' = 0
            /\ pc' = "rings"
    /\ UNCHANGED <<renderVars, camVars, appVars, kind, divisions, overflow_checks, bottom_index, indices, edge_indices>>

\* `for i in 1..latitude { for j in 0..longitude { ... } }` has no iteration left.
RingsExhausted == ~ULt(i, latitude) \/ longitude = 0

\* Lines 261-276: one ring vertex.
RingVertex ==
    /\ pc = "rings"
    /\ ~RingsExhausted
    /\ IF idx >= Len(vertices)
       THEN /\ pc' = "panic"
            /\ UNCHANGED <<vertices, idx, i, j>>
       ELSE /\ vertices' = [vertices EXCEPT ![idx + 1] = WrittenVertex("ring", i, j)]
            /\ idx' = idx + 1
            /\ IF j + 1 < longitude
               THEN /\ j' = j + 1
                    /\ i' = i
               ELSE /\ j' = 0
                    /\ i' = i + 1
            /\ pc' = pc
    /\ UNCHANGED <<renderVars, camVars, appVars, kind, divisions, overflow_checks, top_index, bottom_index,
                   indices, edge_indices>>

\* Lines 278-285: the bottom pole, then the empty index vector.
BottomPole ==
    /\ pc = "rings"
    /\ RingsExhausted
    /\ IF idx >= Len(vertices)
       THEN /\ pc' = "panic"
            /\ UNCHANGED <<vertices, bottom_index, indices, j>>
       ELSE /\ vertices' = [vertices EXCEPT ![idx + 1] = WrittenVertex("bottom_pole", 0, 0)]
            /\ bottom_index' = idx
            /\ indices' = <<>>
            /\ j' = 0
            /\ pc' = "top_cap"
    /\ UNCHANGED <<renderVars, camVars, appVars, kind, divisions, overflow_checks, idx, i, top_index, edge_indices>>

\* A top cap wound the other way: pole, current, next.
TopCapTriangleCurrentFirst(jj) ==
    LET next == (jj + 1) % longitude
    IN  << AsU16(top_index), 1 + AsU16(jj), 1 + AsU16(next) >>

\* Lines 289-292: the triangle of the top cap at j.
TopCapTriangle(jj) ==
    LET next == (jj + 1) % longitude
    IN  << AsU16(top_index), 1 + AsU16(next), 1 + AsU16(jj) >>

\* `1 + next as u16` and `1 + j as u16` are u16 additions.
TopCapOverflow(jj) ==
    LET next == (jj + 1) % longitude
    IN  1 + AsU16(next) > 65535 \/ 1 + AsU16(jj) > 65535

\* Lines 288-293: one iteration of the top cap loop, or its end.
TopCap ==
    /\ pc = "top_cap"
    /\ IF j < longitude
       THEN IF TopCapOverflow(j) /\ overflow_checks
            THEN /\ pc' = "panic"
                 /\ UNCHANGED <<indices, i, j>>
            ELSE IF ~CanPush(indices, TopCapTriangle(j))
            THEN /\ pc' = "abort"
                 /\ UNCHANGED <<indices, i, j>>
            ELSE /\ indices' = indices \o [k \in 1..3 |-> AsU16(TopCapTriangle(j)[k])]
                 /\ j' = j + 1
                 /\ UNCHANGED <<pc, i>>
       ELSE /\ pc' = "middle"
            /\ i' = 0
            /\ j' = 0
            /\ UNCHANGED indices
    /\ UNCHANGED <<renderVars, camVars, appVars, kind, divisions, overflow_checks, idx, top_index, bottom_index,
                   vertices, edge_indices>>

\* Lines 297-313: the two triangles of the quad at (i, j).
MiddleQuadIndices(ii, jj) ==
    LET row == 1 + ii * longitude
        next_row == row + longitude
        next == (jj + 1) % longitude
        a == row + jj
        b == row + next
        c == next_row + jj
        d == next_row + next
    IN  << AsU16(a), AsU16(b), AsU16(c), AsU16(b), AsU16(d), AsU16(c) >>

\* The loop nest of lines 296-315 has nothing left to push: the rows are used
\* up, or the inner range 0 .. longitude is empty (the remaining outer
\* iterations then change nothing and the nest ends).
MiddleExhausted == ~ULt(i, MiddleRows) \/ longitude = 0

\* Lines 296-315: one quad of the middle bands, or the loop's end.
MiddleQuads ==
    /\ pc = "middle"
    /\ IF ~MiddleExhausted
       THEN IF ~CanPush(indices, MiddleQuadIndices(i, j))
            THEN /\ pc' = "abort"
                 /\ UNCHANGED <<indices, i, j>>
            ELSE /\ indices' = indices \o MiddleQuadIndices(i, j)
                 /\ IF j + 1 < longitude
                    THEN /\ j' = j + 1
                         /\ i' = i
                    ELSE /\ j' = 0
                         /\ i' = i + 1
                 /\ pc' = pc
       ELSE /\ pc' = "bottom_cap"
            /\ i' = i
            /\ j' = 0
            /\ UNCHANGED indices
    /\ UNCHANGED <<renderVars, camVars, appVars, kind, divisions, overflow_checks, idx, top_index, bottom_index,
                   vertices, edge_indices>>

\* The bottom cap based one ring too low.
BottomCapBaseOneRingLow == 1 + (latitude - 1) * longitude

\* let base = 1 + (latitude - 2) * longitude;
BottomCapBase == 1 + (latitude - 2) * longitude

\* Lines 320-323: the triangle of the bottom cap at j.
BottomCapTriangle(jj) ==
    LET next == (jj + 1) % longitude
    IN  << AsU16(BottomCapBase + jj), AsU16(BottomCapBase + next), AsU16(bottom_index) >>

\* Lines 317-327: one iteration of the bottom cap loop, or its end and the
\* empty edge vector.
BottomCap ==
    /\ pc = "bottom_cap"
    /\ IF j < longitude
       THEN IF ~CanPush(indices, BottomCapTriangle(j))
            THEN /\ pc' = "abort"
                 /\ UNCHANGED <<indices, edge_indices, j>>
            ELSE /\ indices' = indices \o BottomCapTriangle(j)
                 /\ j' = j + 1
                 /\ UNCHANGED <<pc, edge_indices>>
       ELSE /\ pc' = "edge_spokes"
            /\ edge_indices' = <<>>
            /\ j' = 0
            /\ UNCHANGED indices
    /\ UNCHANGED <<renderVars, camVars, appVars, kind, divisions, overflow_checks, idx, i, top_index, bottom_index,
                   vertices>>

\* Lines 334-339: the vertical segments of column j, rings 0 .. latitude-2.
\* (A wrapped `latitude - 2` ends the enumeration at the allocator's limit.)
RECURSIVE EdgeVerticals(_, _)
EdgeVerticals(ii, jj) ==
    IF ~ULt(ii, MiddleRows) \/ ii > MaxVecLen
    THEN <<>>
    ELSE LET current_ring == 1 + ii * longitude
             next_ring == current_ring + longitude
         IN  << AsU16(current_ring + jj), AsU16(next_ring + jj) >>
                 \o EdgeVerticals(ii + 1, jj)

\* A column that leaves out the spoke to the bottom pole.
EdgeColumnNoBottomSpoke(jj) ==
    << AsU16(top_index), AsU16(1 + jj) >> \o EdgeVerticals(0, jj)

\* Lines 328-345: what one iteration of the column loop pushes.
EdgeColumn(jj) ==
    LET last_ring == 1 + (latitude - 2) * longitude
    IN  << AsU16(top_index), AsU16(1 + jj) >>
            \o EdgeVerticals(0, jj)
            \o << AsU16(last_ring + jj), AsU16(bottom_index) >>

\* Lines 328-345: one column (pole, verticals, pole), or the loop's end.
EdgeSpokes ==
    /\ pc = "edge_spokes"
    /\ IF j < longitude
       THEN IF ~CanPush(edge_indices, EdgeColumn(j))
            THEN /\ pc' = "abort"
                 /\ UNCHANGED <<edge_indices, i, j>>
            ELSE /\ edge_indices' = edge_indices \o EdgeColumn(j)
                 /\ j' = j + 1
                 /\ UNCHANGED <<pc, i>>
       ELSE /\ pc' = "edge_rings"
            /\ i' = 1
            /\ j' = 0
            /\ UNCHANGED edge_indices
    /\ UNCHANGED <<renderVars, camVars, appVars, kind, divisions, overflow_checks, idx, top_index, bottom_index,
                   vertices, indices>>

\* A ring segment that does not wrap around at the end of the ring.
EdgeRingSegmentNoWrap(ii, jj) ==
    LET ring_start == 1 + (ii - 1) * longitude
    IN  << AsU16(ring_start + jj), AsU16(ring_start + jj + 1) >>

\* Lines 349-353: the segment of latitude ring i at j.
EdgeRingSegment(ii, jj) ==
    LET ring_start == 1 + (ii - 1) * longitude
        next == (jj + 1) % longitude
    IN  << AsU16(ring_start + jj), AsU16(ring_start + next) >>

\* Lines 347-402: one segment of a latitude ring, or the loop's end and the
\* returned Mesh.
EdgeRings ==
    /\ pc = "edge_rings"
    /\ IF ~RingsExhausted
       THEN IF ~CanPush(edge_indices, EdgeRingSegment(i, j))
            THEN /\ pc' = "abort"
                 /\ UNCHANGED <<edge_indices, i, j>>
            ELSE /\ edge_indices' = edge_indices \o EdgeRingSegment(i, j)
                 /\ IF j + 1 < longitude
                    THEN /\ j' = j + 1
                         /\ i' = i
                    ELSE /\ j' = 0
                         /\ i' = i + 1
                 /\ pc' = pc
       ELSE /\ pc' = "done"
            /\ UNCHANGED <<edge_indices, i, j>>
    /\ UNCHANGED <<renderVars, camVars, appVars, kind, divisions, overflow_checks, idx, top_index, bottom_index,
                   vertices, indices>>

\* -------------------------------------------------- new_sphere, sampled

\* The divisions the index arithmetic is sampled at: small spheres, the
\* largest whose vertex count fits 16 bits (65162) and the next (65886).
SphereSamples == {2, 3, 4, 181, 182}

\* The columns and the rows the loops are sampled at: the first two and the
\* last of each range.
SampleColumns == {0, 1, longitude - 1}

SampleRows == {row \in {0, 1, MiddleRows - 1} : row >= 0 /\ row < MiddleRows}

SampleRings == {ring \in {1, 2, latitude - 1} : ring >= 1 /\ ring < latitude}

\* What one iteration of one of new_sphere's index loops pushes, the loop
\* variables being (ii, jj).
Pushed(loop, ii, jj) ==
    /\ pc' = loop
    /\ i' = ii
    /\ j' = jj
    /\ UNCHANGED <<renderVars, camVars, appVars, kind, divisions, overflow_checks, idx,
                   top_index, bottom_index, vertices>>

\* Lines 288-293, iteration j = jj.
IndexTopCap(jj) ==
    /\ kind = "Sphere"
    /\ indices' = [k \in 1..3 |-> AsU16(TopCapTriangle(jj)[k])]
    /\ edge_indices' = <<>>
    /\ Pushed("top_cap", 0, jj)

\* Lines 296-315, iteration (i, j) = (ii, jj).
IndexMiddle(ii, jj) ==
    /\ kind = "Sphere"
    /\ indices' = MiddleQuadIndices(ii, jj)
    /\ edge_indices' = <<>>
    /\ Pushed("middle", ii, jj)

\* Lines 318-324, iteration j = jj.
IndexBottomCap(jj) ==
    /\ kind = "Sphere"
    /\ indices' = BottomCapTriangle(jj)
    /\ edge_indices' = <<>>
    /\ Pushed("bottom_cap", 0, jj)

\* The inner iterations of a column the sample starts at: the last two,
\* or none.
SampleTailRows ==
    {row \in {MiddleRows - 2, MiddleRows - 1, MiddleRows} : row >= 0}

\* Lines 328-345, iteration j = jj: the spoke from the top pole, the
\* verticals from the inner iteration i = ii on, the spoke to the bottom
\* pole.
IndexColumn(ii, jj) ==
    /\ kind = "Sphere"
    /\ indices' = <<>>
    /\ edge_indices' =
           << AsU16(top_index), AsU16(1 + jj) >>
               \o EdgeVerticals(ii, jj)
               \o << AsU16(1 + (latitude - 2) * longitude + jj), AsU16(bottom_index) >>
    /\ Pushed("edge_spokes", ii, jj)

\* Lines 348-355, iteration (i, j) = (ii, jj).
IndexRing(ii, jj) ==
    /\ kind = "Sphere"
    /\ indices' = <<>>
    /\ edge_indices' = EdgeRingSegment(ii, jj)
    /\ Pushed("edge_rings", ii, jj)

\* The mesh constructor's variables while no constructor is being followed.
MeshIdle ==
    /\ kind = "Cube"
    /\ divisions = 0
    /\ overflow_checks = TRUE
    /\ pc = "start"
    /\ idx = 0
    /\ i = 0
    /\ j = 0
    /\ top_index = 0
    /\ bottom_index = 0
    /\ vertices = <<>>
    /\ indices = <<>>
    /\ edge_indices = <<>>

\* ------------------------------------------------- Mesh: instance buffers

\* pub const DEFAULT_INSTANCE_CAPACITY: usize = 100;
DEFAULT_INSTANCE_CAPACITY == 100

\* device.create_buffer: a buffer is told from every other by which field it
\* was created for and how many were created for that field before it; its
\* size is counted in instances.
CreateBuffer(label, generation, capacity) ==
    [label |-> label, gen |-> generation, size |-> capacity]

NoBuffer == CreateBuffer("none", 0, 0)

\* The capacities and instance buffers every constructor ends with
\* (new_cube 93-113, new_tetrahedron 198-218, new_sphere 368-388).
NewMeshBuffers ==
    [instance_capacity |-> DEFAULT_INSTANCE_CAPACITY,
     instance_buffer |-> CreateBuffer("instance", 0, DEFAULT_INSTANCE_CAPACITY),
     edge_instance_capacity |-> DEFAULT_INSTANCE_CAPACITY,
     edge_instance_buffer |-> CreateBuffer("edge_instance", 0, DEFAULT_INSTANCE_CAPACITY)]

\* A growth that sets the capacity to what was asked for.
DoubledCapacityExact(capacity, new_capacity) == new_capacity

\* while self.instance_capacity < new_capacity { self.instance_capacity *= 2; }
RECURSIVE DoubledCapacity(_, _)
DoubledCapacity(capacity, new_capacity) ==
    IF capacity < new_capacity
    THEN DoubledCapacity(capacity * 2, new_capacity)
    ELSE capacity

\* A reallocation that grows the edge capacity along with the solid one.
ReallocBothBuffers(mesh, new_capacity) ==
    LET cap == DoubledCapacity(mesh.instance_capacity, new_capacity)
    IN  [mesh EXCEPT
            !.instance_capacity = cap,
            !.edge_instance_capacity = cap,
            !.instance_buffer = CreateBuffer("instance", @.gen + 1, cap)]

\* Mesh::realloc_instance_buffer
ReallocInstanceBuffer(mesh, new_capacity) ==
    LET cap == DoubledCapacity(mesh.instance_capacity, new_capacity)
    IN  [mesh EXCEPT
            !.instance_capacity = cap,
            !.instance_buffer = CreateBuffer("instance", @.gen + 1, cap)]

\* Mesh::realloc_edge_instance_buffer, which renderer.rs:575 calls and
\* mesh.rs does not hold: the growth policy of the specification (the
\* capacity doubled until it is at least the count asked for, then the
\* buffer reallocated), on the edge fields.
ReallocEdgeInstanceBuffer(mesh, new_capacity) ==
    LET cap == DoubledCapacity(mesh.edge_instance_capacity, new_capacity)
    IN  [mesh EXCEPT
            !.edge_instance_capacity = cap,
            !.edge_instance_buffer = CreateBuffer("edge_instance", @.gen + 1, cap)]

\* ---------------------------------------------------------------- Renderer

\* The meshes Renderer::from_winit registers.
RegisteredMeshTypes == {"Cube", "Tetrahedron", "Sphere"}

\* Instance { model_matrix, color }: the matrix column-major, in millionths;
\* the colour in thousandths.
Instance(model_matrix, color) == [model_matrix |-> model_matrix, color |-> color]

DrawCommand(mesh_type, instance) == [mesh_type |-> mesh_type, instance |-> instance]

\* A Vec whose elements come in long runs of equal values is held run-length
\* encoded, a sequence of [item, count] with count >= 1 and neighbouring
\* runs of different items: every Vec has exactly one such encoding.
RECURSIVE VecLen(_)
VecLen(vec) ==
    IF vec = <<>> THEN 0 ELSE vec[1].count + VecLen(Tail(vec))

\* n times Vec::push(item)
PushRun(vec, item, n) ==
    IF n = 0
    THEN vec
    ELSE IF vec # <<>> /\ vec[Len(vec)].item = item
    THEN [vec EXCEPT ![Len(vec)].count = @ + n]
    ELSE Append(vec, [item |-> item, count |-> n])

\* vec[k], k counted from 0
RECURSIVE VecAt(_, _)
VecAt(vec, k) ==
    IF k < vec[1].count THEN vec[1].item ELSE VecAt(Tail(vec), k - vec[1].count)

\* The instance of the demo scene's first cube (main.rs:68-74): scale 0.1 at
\* (4, 0, 0), red.
DemoInstance ==
    Instance(<< 100000, 0, 0, 0,   0, 100000, 0, 0,   0, 0, 100000, 0,
                4000000, 0, 0, 1000000 >>,
             << 1000, 0, 0, 1000 >>)

\* How many commands the application appends in one go.
BatchSizes == {DEFAULT_INSTANCE_CAPACITY, DEFAULT_INSTANCE_CAPACITY + 1}

\* The mesh types the application draws (the demo scene's, main.rs:61-88).
PushTypes == {"Cube", "Sphere"}

\* What a call handed to the GPU: queue.write_buffer(buffer, 0, instances)
\* and draw_indexed(.., 0..drawn).
CallRecord(fn, mesh_type, wrote, buffer, instances) ==
    [fn |-> fn, mesh_type |-> mesh_type, wrote |-> wrote, buffer |-> buffer,
     instances |-> instances, drawn |-> IF wrote THEN VecLen(instances) ELSE 0]

NoCall == CallRecord("none", "Triangle", FALSE, NoBuffer, <<>>)

\* The application appends n commands of one type: self.renderer.commands.push(...)
PushCommands(t, n) ==
    /\ VecLen(commands) + n <= MaxCommands
    /\ commands' = PushRun(commands, DrawCommand(t, DemoInstance), n)
    /\ call' = NoCall
    /\ UNCHANGED <<meshes, meshVars, camVars, appVars>>

\* The application empties the list it owns (Renderer::commands is pub).
ClearCommands ==
    /\ commands # <<>>
    /\ commands' = <<>>
    /\ call' = NoCall
    /\ UNCHANGED <<meshes, meshVars, camVars, appVars>>

\* A collection that walks the list from its newest command to its oldest.
RECURSIVE SolidInstancesNewestFirst(_, _, _)
SolidInstancesNewestFirst(cmds, t, runs) ==
    IF runs = 0
    THEN <<>>
    ELSE LET before == SolidInstancesNewestFirst(cmds, t, runs - 1)
             run == cmds[Len(cmds) - runs + 1]
         IN  IF run.item.mesh_type = t
             THEN PushRun(before, run.item.instance, run.count)
             ELSE before

\* Lines 524-534: the instances of the commands of one mesh type, in order
\* (of the first `runs` runs of the list).
RECURSIVE SolidInstancesOf(_, _, _)
SolidInstancesOf(cmds, t, runs) ==
    IF runs = 0
    THEN <<>>
    ELSE LET before == SolidInstancesOf(cmds, t, runs - 1)
             cmd == cmds[runs].item
         IN  IF cmd.mesh_type = t
             THEN PushRun(before, cmd.instance, cmds[runs].count)
             ELSE before

SolidInstances(cmds, t) == SolidInstancesOf(cmds, t, Len(cmds))

\* A growth check that also fires when the instances just fit.
GrownForSolidWhenFull(mesh, instances) ==
    IF VecLen(instances) >= mesh.instance_capacity
    THEN ReallocInstanceBuffer(mesh, VecLen(instances))
    ELSE mesh

\* Lines 536-538: the growth check.
GrownForSolid(mesh, instances) ==
    IF VecLen(instances) > mesh.instance_capacity
    THEN ReallocInstanceBuffer(mesh, VecLen(instances))
    ELSE mesh

\* A write to the buffer fetched before the growth check.
SolidWriteTargetStale(before, after) == before.instance_buffer

\* Lines 540-541: write_buffer(&mesh.instance_buffer, ...) reads the field
\* after the growth check.
SolidWriteTarget(before, after) == after.instance_buffer

\* Renderer::render_mesh on the meshes `ms` and the command list `cmds`:
\* the meshes after it and what it handed to the GPU.
RenderMeshOn(ms, cmds, t) ==
    IF t \notin DOMAIN ms
    THEN [meshes |-> ms, call |-> CallRecord("render_mesh", t, FALSE, NoBuffer, <<>>)]
    ELSE LET instances == SolidInstances(cmds, t)
             grown == GrownForSolid(ms[t], instances)
         IN  [meshes |-> [ms EXCEPT ![t] = grown],
              call |-> CallRecord("render_mesh", t, TRUE,
                                  SolidWriteTarget(ms[t], grown), instances)]

\* Renderer::render_mesh
RenderMesh(t) ==
    /\ meshes' = RenderMeshOn(meshes, commands, t).meshes
    /\ call' = RenderMeshOn(meshes, commands, t).call
    /\ UNCHANGED <<commands, meshVars, camVars, appVars>>

\* An outline instance whose matrix is the scale times the model matrix:
\* the scale also moves the translation.
WireInstancePreMultiplied(instance) ==
    [instance EXCEPT
        !.color = << 1000, 1000, 1000, 1000 >>,
        !.model_matrix = [k \in 1..16 |->
            IF (k - 1) % 4 < 3
            THEN (instance.model_matrix[k] * 201) \div 200
            ELSE instance.model_matrix[k]]]

\* Lines 564-567: the outline instance of a command.
WireInstance(instance) ==
    [instance EXCEPT
        !.color = << 1000, 1000, 1000, 1000 >>,
        !.model_matrix = [k \in 1..16 |->
            IF k <= 12
            THEN (instance.model_matrix[k] * 1005) \div 1000
            ELSE instance.model_matrix[k]]]

\* Lines 559-572: the outline instances of the commands of one mesh type
\* (of the first `runs` runs of the list).
RECURSIVE OutlineInstancesOf(_, _, _)
OutlineInstancesOf(cmds, t, runs) ==
    IF runs = 0
    THEN <<>>
    ELSE LET before == OutlineInstancesOf(cmds, t, runs - 1)
             cmd == cmds[runs].item
         IN  IF cmd.mesh_type = t
             THEN PushRun(before, WireInstance(cmd.instance), cmds[runs].count)
             ELSE before

OutlineInstances(cmds, t) == OutlineInstancesOf(cmds, t, Len(cmds))

\* Lines 574-576: the growth check of the outline pass.
GrownForOutline(mesh, instances) ==
    IF VecLen(instances) > mesh.edge_instance_capacity
    THEN ReallocEdgeInstanceBuffer(mesh, VecLen(instances))
    ELSE mesh

\* Lines 578-582: write_buffer(&mesh.edge_instance_buffer, ...).
OutlineWriteTarget(before, after) == after.edge_instance_buffer

\* An outline pass that writes each derived instance back into its command.
CommandsAfterOutlineInPlace(cmds, t) ==
    [k \in 1..Len(cmds) |->
        IF cmds[k].item.mesh_type = t
        THEN [cmds[k] EXCEPT !.item.instance = WireInstance(@)]
        ELSE cmds[k]]

\* Lines 559-572: iter_mut() hands out each command, the closure copies
\* cmd.instance (Instance is Copy) and assigns only to the copy.
CommandsAfterOutline(cmds, t) == cmds

\* Renderer::render_outline_mesh on the meshes `ms` and the command list
\* `cmds`: the meshes and the list after it, and what it handed to the GPU.
RenderOutlineMeshOn(ms, cmds, t) ==
    IF t \notin DOMAIN ms
    THEN [meshes |-> ms, commands |-> cmds,
          call |-> CallRecord("render_outline_mesh", t, FALSE, NoBuffer, <<>>)]
    ELSE LET instances == OutlineInstances(cmds, t)
             grown == GrownForOutline(ms[t], instances)
         IN  [meshes |-> [ms EXCEPT ![t] = grown],
              commands |-> CommandsAfterOutline(cmds, t),
              call |-> CallRecord("render_outline_mesh", t, TRUE,
                                  OutlineWriteTarget(ms[t], grown), instances)]

\* Renderer::render_outline_mesh
RenderOutlineMesh(t) ==
    /\ meshes' = RenderOutlineMeshOn(meshes, commands, t).meshes
    /\ commands' = RenderOutlineMeshOn(meshes, commands, t).commands
    /\ call' = RenderOutlineMeshOn(meshes, commands, t).call
    /\ UNCHANGED <<meshVars, camVars, appVars>>

\* Renderer::from_winit: the three meshes, no commands.
RendererNew ==
    /\ commands = <<>>
    /\ meshes = [t \in RegisteredMeshTypes |-> NewMeshBuffers]
    /\ call = NoCall

\* ------------------------------------------------------------------ f32

\* f32 NaN, apart from every number the model computes with.
NaN == -(2 ^ 30)

IsNaN(x) == x = NaN

\* a - b
FSub(a, b) == IF IsNaN(a) \/ IsNaN(b) THEN NaN ELSE a - b

\* a * b
FMul(a, b) == IF IsNaN(a) \/ IsNaN(b) THEN NaN ELSE (a * b) \div 1000

\* a < b, a > b: false when either is NaN
FLt(a, b) == ~IsNaN(a) /\ ~IsNaN(b) /\ a < b

FGt(a, b) == ~IsNaN(a) /\ ~IsNaN(b) /\ a > b

\* A clamp that forgets the upper limit.
ClampBelowOnly(x, min, max) == IF FLt(x, min) THEN min ELSE x

\* f32::clamp: `if x < min { x = min } if x > max { x = max } x`; NaN stays NaN.
Clamp(x, min, max) ==
    LET lo == IF FLt(x, min) THEN min ELSE x
    IN  IF FGt(lo, max) THEN max ELSE lo

\* ------------------------------------------------------------------ Camera

\* Mat4::look_at_rh(position, target, Z) with position the orbit point of
\* (target, distance, yaw, pitch): held as what it was computed from.
ViewMatrix(target, distance, yaw, pitch) ==
    [target |-> target, distance |-> distance, yaw |-> yaw, pitch |-> pitch]

\* Mat4::perspective_rh(fovy, aspect, z_near, z_far)
ProjMatrix(fovy, aspect, z_near, z_far) ==
    [fovy |-> fovy, aspect |-> aspect, z_near |-> z_near, z_far |-> z_far]

\* PanOrbitCamera::update
Update(cam) ==
    LET distance == Clamp(cam.distance, cam.distance_min, cam.distance_max)
        pitch == Clamp(cam.angle_pitch, cam.angle_pitch_min, cam.angle_pitch_max)
    IN  [cam EXCEPT
            !.distance = distance,
            !.angle_pitch = pitch,
            !.view_matrix = ViewMatrix(cam.target, distance, cam.angle_yaw, pitch)]

\* PanOrbitCamera::default: the fields of lines 73-96, then update().
CameraDefault ==
    Update([z_near |-> 100,
            z_far |-> 1000000,
            aspect |-> 1778,
            fovy |-> 1047,
            target |-> << 0, 0, 0 >>,
            distance |-> 10000,
            angle_yaw |-> 785,
            angle_pitch |-> 785,
            angle_pitch_min |-> -1561,
            angle_pitch_max |-> 1561,
            distance_min |-> 100,
            distance_max |-> 1000000,
            mouse_speed |-> 5,
            zoom_speed |-> 500,
            pan_speed |-> 1,
            view_matrix |-> ViewMatrix(<< 0, 0, 0 >>, 1000, 1571, 0),
            proj_matrix |-> ProjMatrix(1047, 1778, 100, 1000000)])

\* A zoom without the early return for a zero scroll.
ZoomAlwaysUpdates(cam, mouse_scroll) ==
    Update([cam EXCEPT
               !.distance = FSub(@, FMul(mouse_scroll, cam.zoom_speed))])

\* PanOrbitCamera::zoom
Zoom(cam, mouse_scroll) ==
    IF mouse_scroll = 0
    THEN cam
    ELSE Update([cam EXCEPT
                    !.distance = FSub(@, FMul(mouse_scroll, cam.zoom_speed))])

CamCallRecord(op, arg, before) == [op |-> op, arg |-> arg, before |-> before]

NoCamCall == CamCallRecord("none", 0, CameraDefault)

\* The scroll amounts the camera is given: none, a pixel delta either way, a
\* fast pinch apart, and NaN.
Scrolls == {0, 40000, -40000, -4000000, NaN}

\* The distances the camera starts from: the default, and what an
\* application may store in the pub field.
StartDistances == {10000, 0, 50, 2000000, NaN}

\* A call of zoom.
ZoomCall(s) ==
    /\ camera' = Zoom(camera, s)
    /\ cam_call' = CamCallRecord("zoom", s, camera)
    /\ UNCHANGED <<meshVars, renderVars, appVars>>

\* a + b
FAdd(a, b) == IF IsNaN(a) \/ IsNaN(b) THEN NaN ELSE a + b

\* a / b: 0/0 is NaN; x/0 is infinite, which the model holds as NaN too
\* (every use of it here multiplies or subtracts it into NaN or an infinity).
FDiv(a, b) == IF IsNaN(a) \/ IsNaN(b) \/ b = 0 THEN NaN ELSE (a * 1000) \div b

\* f32::sqrt of n / 10^6, in thousandths
FSqrt(n) ==
    IF IsNaN(n) \/ n < 0
    THEN NaN
    ELSE CHOOSE r \in 0..2000 : r * r <= n /\ n < (r + 1) * (r + 1)

\* f32::sin, by Bhaskara's approximation on each half period (pi = 3.142).
Sin(x) ==
    IF IsNaN(x)
    THEN NaN
    ELSE LET r == x % 6284
             h == IF r <= 3142 THEN r ELSE r - 3142
             n == h * (3142 - h)
             v == (16 * n) \div ((5 * 3142 * 3142 - 4 * n) \div 1000)
         IN  IF r <= 3142 THEN v ELSE -v

\* f32::cos
Cos(x) == IF IsNaN(x) THEN NaN ELSE Sin(x + 1571)

\* Vec3::normalize: v / |v|
Normalize(v) ==
    LET sq == FAdd(FAdd(FMul(v[1], v[1]), FMul(v[2], v[2])), FMul(v[3], v[3]))
        len == IF IsNaN(sq) THEN NaN ELSE FSqrt(sq * 1000)
    IN  << FDiv(v[1], len), FDiv(v[2], len), FDiv(v[3], len) >>

\* Vec3::cross
Cross(a, b) ==
    << FSub(FMul(a[2], b[3]), FMul(a[3], b[2])),
       FSub(FMul(a[3], b[1]), FMul(a[1], b[3])),
       FSub(FMul(a[1], b[2]), FMul(a[2], b[1])) >>

\* An orbit that lowers the pitch where the pointer raises it.
OrbitPitchInverted(cam, mouse_delta) ==
    Update([cam EXCEPT
               !.angle_yaw = FSub(@, FMul(mouse_delta[1], cam.mouse_speed)),
               !.angle_pitch = FSub(@, FMul(mouse_delta[2], cam.mouse_speed))])

\* PanOrbitCamera::orbit
Orbit(cam, mouse_delta) ==
    Update([cam EXCEPT
               !.angle_yaw = FSub(@, FMul(mouse_delta[1], cam.mouse_speed)),
               !.angle_pitch = FAdd(@, FMul(mouse_delta[2], cam.mouse_speed))])

\* A pan offset that adds the delta to the axis where the code multiplies.
PanOffsetAdditive(r, u, mouse_delta, pan_distance) ==
    FMul(FSub(FAdd(r, mouse_delta[1]), FAdd(u, mouse_delta[2])), pan_distance)

\* Lines 159-161: (rt * mouse_delta.x - up * mouse_delta.y) * pan_distance,
\* for one coordinate.
PanOffset(r, u, mouse_delta, pan_distance) ==
    FMul(FSub(FMul(r, mouse_delta[1]), FMul(u, mouse_delta[2])), pan_distance)

\* PanOrbitCamera::pan
Pan(cam, mouse_delta) ==
    LET cos_y == Cos(cam.angle_pitch)
        sin_y == Sin(cam.angle_pitch)
        cos_x == Cos(cam.angle_yaw)
        sin_x == Sin(cam.angle_yaw)
        rt == Normalize(<< FSub(0, sin_x), cos_x, 0 >>)
        fw == Normalize(<< FMul(cos_y, cos_x), FMul(cos_y, sin_x), sin_y >>)
        up == Normalize(Cross(fw, rt))
        pan_distance == FMul(cam.distance, cam.pan_speed)
    IN  Update([cam EXCEPT
                   !.target = [k \in 1..3 |->
                       FSub(cam.target[k],
                            PanOffset(rt[k], up[k], mouse_delta, pan_distance))]])

\* An update_aspect that divides whatever the height is.
UpdateAspectUnguarded(cam, window_size) ==
    [cam EXCEPT !.proj_matrix =
        ProjMatrix(cam.fovy, FDiv(window_size[1] * 1000, window_size[2] * 1000),
                   cam.z_near, cam.z_far)]

\* PanOrbitCamera::update_aspect: only proj_matrix is assigned.
UpdateAspect(cam, window_size) ==
    LET aspect == IF window_size[1] = 0 \/ window_size[2] = 0
                  THEN 1000
                  ELSE FDiv(window_size[1] * 1000, window_size[2] * 1000)
    IN  [cam EXCEPT !.proj_matrix = ProjMatrix(cam.fovy, aspect, cam.z_near, cam.z_far)]

\* The mouse deltas (pixels): none, a drag, and NaN.
Deltas == {<< 0, 0 >>, << 200000, -400000 >>, << NaN, 0 >>, << 0, NaN >>}

\* The scroll amounts of the orbit/pan/zoom runs: none, a pinch apart past
\* distance_max, a scroll in, and NaN.
PanScrolls == {0, -4000000, 1990000, NaN}

\* The window sizes update_aspect is given.
WindowSizes == {<< 0, 0 >>, << 0, 600 >>, << 1024, 0 >>, << 800, 600 >>}

\* How far a run lets the yaw and the target go.
MaxYaw == 1500

MaxTarget == 1500

Bounded(cam) ==
    /\ ~IsNaN(cam.angle_yaw) => (cam.angle_yaw <= MaxYaw /\ -cam.angle_yaw <= MaxYaw)
    /\ \A k \in 1..3 :
           ~IsNaN(cam.target[k]) => (cam.target[k] <= MaxTarget /\ -cam.target[k] <= MaxTarget)

\* A call of orbit.
OrbitCall(d) ==
    /\ Bounded(Orbit(camera, d))
    /\ camera' = Orbit(camera, d)
    /\ cam_call' = CamCallRecord("orbit", d, camera)
    /\ UNCHANGED <<meshVars, renderVars, appVars>>

\* A call of pan.
PanCall(d) ==
    /\ Bounded(Pan(camera, d))
    /\ camera' = Pan(camera, d)
    /\ cam_call' = CamCallRecord("pan", d, camera)
    /\ UNCHANGED <<meshVars, renderVars, appVars>>

\* A call of update_aspect.
UpdateAspectCall(size) ==
    /\ camera' = UpdateAspect(camera, size)
    /\ cam_call' = CamCallRecord("update_aspect", size, camera)
    /\ UNCHANGED <<meshVars, renderVars, appVars>>

\* ----------------------------------------------------------------- Passes

\* The arms of the match in the pass loops that call the mesh renderer
\* (lines 138-140, 183-185); every other mesh type takes the `_` arm.
HasRenderArm(t) == t \in {"Cube", "Tetrahedron", "Sphere"}

\* log::warn!("{:?} mesh rendering has not been implemented yet", mesh_type)
NotImplementedWarning(t) == [level |-> "warn", mesh_type |-> t]

\* self.meshes.keys().cloned().collect(): the keys in any order.
KeyOrders(ms) ==
    {order \in [1..Cardinality(DOMAIN ms) -> DOMAIN ms] :
        \A a, b \in DOMAIN order : a # b => order[a] # order[b]}

\* Lines 134-146: the loop of the solid pass over the first k keys.
RECURSIVE SolidPassOver(_, _, _, _)
SolidPassOver(ms, cmds, order, k) ==
    IF k = 0
    THEN [meshes |-> ms, commands |-> cmds, calls |-> <<>>, warnings |-> <<>>]
    ELSE LET prev == SolidPassOver(ms, cmds, order, k - 1)
             step == RenderMeshOn(prev.meshes, prev.commands, order[k])
         IN  IF HasRenderArm(order[k])
             THEN [prev EXCEPT !.meshes = step.meshes,
                               !.calls = Append(@, step.call)]
             ELSE [prev EXCEPT !.warnings = Append(@, NotImplementedWarning(order[k]))]

\* Lines 179-191: the loop of the outline pass over the first k keys.
RECURSIVE OutlinePassOver(_, _, _, _)
OutlinePassOver(ms, cmds, order, k) ==
    IF k = 0
    THEN [meshes |-> ms, commands |-> cmds, calls |-> <<>>, warnings |-> <<>>]
    ELSE LET prev == OutlinePassOver(ms, cmds, order, k - 1)
             step == RenderOutlineMeshOn(prev.meshes, prev.commands, order[k])
         IN  IF HasRenderArm(order[k])
             THEN [prev EXCEPT !.meshes = step.meshes,
                               !.commands = step.commands,
                               !.calls = Append(@, step.call)]
             ELSE [prev EXCEPT !.warnings = Append(@, NotImplementedWarning(order[k]))]

\* The bag of the elements of a sequence.
BagOf(seq) ==
    [item \in {seq[k] : k \in DOMAIN seq} |->
        Cardinality({k \in DOMAIN seq : seq[k] = item})]

\* A pass as recorded: the bag of its GPU calls, the bag of its diagnostics
\* and the view-projection bound to it (the uniform buffer's content:
\* set_bind_group(0, &self.uniform_bind_group, &[]), lines 132, 177).
Frame(pass, result, bound) ==
    [pass |-> pass, calls |-> BagOf(result.calls),
     warnings |-> BagOf(result.warnings), view_proj |-> bound.view_proj]

NoFrame == [pass |-> "none", calls |-> BagOf(<<>>), warnings |-> BagOf(<<>>)]

\* State::render returned Ok(()) before acquiring the surface texture
\* (main.rs:131-133): no pass was encoded.
SkippedFrame == [pass |-> "skipped", calls |-> BagOf(<<>>), warnings |-> BagOf(<<>>)]

\* Renderer::solid_render_pass
SolidRenderPass ==
    /\ \E order \in KeyOrders(meshes) :
           LET result == SolidPassOver(meshes, commands, order, Len(order))
           IN  /\ meshes' = result.meshes
               /\ commands' = result.commands
               /\ frame' = Frame("solid", result, uniforms)
               /\ call' = NoCall
    /\ UNCHANGED <<meshVars, camVars, is_surface_configured, is_scene_initialized,
                   surface_config, mouse_state, fingers, touch_event, uniforms, builder, built>>

\* Renderer::outline_render_pass
OutlineRenderPass ==
    /\ \E order \in KeyOrders(meshes) :
           LET result == OutlinePassOver(meshes, commands, order, Len(order))
           IN  /\ meshes' = result.meshes
               /\ commands' = result.commands
               /\ frame' = Frame("outline", result, uniforms)
               /\ call' = NoCall
    /\ UNCHANGED <<meshVars, camVars, is_surface_configured, is_scene_initialized,
                   surface_config, mouse_state, fingers, touch_event, uniforms, builder, built>>

\* --------------------------------------------------------------- Commands

\* glam::Mat3, column-major, in thousandths.
Mat3Identity == << 1000, 0, 0,   0, 1000, 0,   0, 0, 1000 >>

\* Half a turn about z, about x.
Mat3HalfTurnZ == << -1000, 0, 0,   0, -1000, 0,   0, 0, 1000 >>

Mat3HalfTurnX == << 1000, 0, 0,   0, -1000, 0,   0, 0, -1000 >>

\* DrawCommandBuilder::new
DrawCommandBuilderNew(mesh_type) ==
    [mesh_type |-> mesh_type,
     position |-> << 0, 0, 0 >>,
     rotation |-> Mat3Identity,
     scale |-> 1000,
     color |-> << 1000, 1000, 1000, 1000 >>]

WithPosition(self, position) == [self EXCEPT !.position = position]

WithRotation(self, rotation) == [self EXCEPT !.rotation = rotation]

WithScale(self, scale) == [self EXCEPT !.scale = scale]

WithColor(self, rgba) == [self EXCEPT !.color = rgba]

\* with_color_u8: Vec4::new(r as f32, ...) / 255.0
WithColorU8(self, rgba) ==
    [self EXCEPT !.color = [k \in 1..4 |-> FDiv(rgba[k] * 1000, 255 * 1000)]]

\* glam::Quat::from_mat3: << x, y, z, w >> of the matrix with columns
\* (m00 m01 m02), (m10 m11 m12), (m20 m21 m22).
QuatFromMat3(m) ==
    LET m00 == m[1]  m01 == m[2]  m02 == m[3]
        m10 == m[4]  m11 == m[5]  m12 == m[6]
        m20 == m[7]  m21 == m[8]  m22 == m[9]
    IN  IF m22 <= 0
        THEN LET dif10 == m11 - m00
                 omm22 == 1000 - m22
             IN  IF dif10 <= 0
                 THEN LET four_xsq == omm22 - dif10
                          inv4x == FDiv(500, FSqrt(four_xsq * 1000))
                      IN  << FMul(four_xsq, inv4x), FMul(m01 + m10, inv4x),
                             FMul(m02 + m20, inv4x), FMul(m12 - m21, inv4x) >>
                 ELSE LET four_ysq == omm22 + dif10
                          inv4y == FDiv(500, FSqrt(four_ysq * 1000))
                      IN  << FMul(m01 + m10, inv4y), FMul(four_ysq, inv4y),
                             FMul(m12 + m21, inv4y), FMul(m20 - m02, inv4y) >>
        ELSE LET sum10 == m11 + m00
                 opm22 == 1000 + m22
             IN  IF sum10 <= 0
                 THEN LET four_zsq == opm22 - sum10
                          inv4z == FDiv(500, FSqrt(four_zsq * 1000))
                      IN  << FMul(m02 + m20, inv4z), FMul(m12 + m21, inv4z),
                             FMul(four_zsq, inv4z), FMul(m01 - m10, inv4z) >>
                 ELSE LET four_wsq == opm22 + sum10
                          inv4w == FDiv(500, FSqrt(four_wsq * 1000))
                      IN  << FMul(m12 - m21, inv4w), FMul(m20 - m02, inv4w),
                             FMul(m01 - m10, inv4w), FMul(four_wsq, inv4w) >>

\* The rotation axes of a quaternion (glam's quat_to_axes), as a Mat3.
QuatToAxes(q) ==
    LET x == q[1]  y == q[2]  z == q[3]  w == q[4]
        x2 == x + x  y2 == y + y  z2 == z + z
        xx == FMul(x, x2)  xy == FMul(x, y2)  xz == FMul(x, z2)
        yy == FMul(y, y2)  yz == FMul(y, z2)  zz == FMul(z, z2)
        wx == FMul(w, x2)  wy == FMul(w, y2)  wz == FMul(w, z2)
    IN  << 1000 - (yy + zz), xy + wz, xz - wy,
           xy - wz, 1000 - (xx + zz), yz + wx,
           xz + wy, yz - wx, 1000 - (xx + yy) >>

\* A composition that translates first: the translation is scaled as well.
FromTranslationRotationScale(scale, rotation, translation) ==
    LET axes == QuatToAxes(rotation)
    IN  [k \in 1..16 |->
            IF k <= 12
            THEN IF k % 4 = 0 THEN 0 ELSE axes[3 * ((k - 1) \div 4) + (k % 4)] * scale
            ELSE IF k = 16 THEN 1000000 ELSE translation[k - 12] * scale]

\* glam::Mat4::from_scale_rotation_translation(Vec3::splat(scale), rotation,
\* translation): the axes times the scale, then the translation column; in
\* millionths.
FromScaleRotationTranslation(scale, rotation, translation) ==
    LET axes == QuatToAxes(rotation)
    IN  [k \in 1..16 |->
            IF k <= 12
            THEN IF k % 4 = 0 THEN 0 ELSE axes[3 * ((k - 1) \div 4) + (k % 4)] * scale
            ELSE IF k = 16 THEN 1000000 ELSE translation[k - 12] * 1000]

\* DrawCommandBuilder::build
Build(self) ==
    DrawCommand(self.mesh_type,
                Instance(FromScaleRotationTranslation(
                             self.scale, QuatFromMat3(self.rotation), self.position),
                         self.color))

NoCommand == DrawCommand("Triangle", Instance(<<>>, <<>>))

\* What the builder calls are given.
BuilderPositions == {<< 4000, 0, 0 >>, << 0, -2500, 4000 >>}

BuilderRotations == {Mat3Identity, Mat3HalfTurnZ, Mat3HalfTurnX}

BuilderScales == {100, 500}

BuilderColorsU8 == {<< 255, 0, 0, 255 >>, << 0, 128, 255, 255 >>}

BuilderColors == {<< 250, 500, 750, 1000 >>}

\* One call of the chain on the builder not built yet.
WithCall ==
    /\ built = NoCommand
    /\ \/ \E position \in BuilderPositions : builder' = WithPosition(builder, position)
       \/ \E rotation \in BuilderRotations : builder' = WithRotation(builder, rotation)
       \/ \E scale \in BuilderScales : builder' = WithScale(builder, scale)
       \/ \E rgba \in BuilderColorsU8 : builder' = WithColorU8(builder, rgba)
       \/ \E rgba \in BuilderColors : builder' = WithColor(builder, rgba)
    /\ UNCHANGED <<meshVars, renderVars, camVars, is_surface_configured, is_scene_initialized,
                   surface_config, mouse_state, fingers, touch_event, uniforms, frame, built>>

\* build() ends the chain.
BuildCall ==
    /\ built = NoCommand
    /\ built' = Build(builder)
    /\ UNCHANGED <<meshVars, renderVars, camVars, is_surface_configured, is_scene_initialized,
                   surface_config, mouse_state, fingers, touch_event, uniforms, frame, builder>>

\* A quarter turn about z: x goes to y, y to -x.
Mat3QuarterTurnZ == << 0, 1000, 0,   -1000, 0, 0,   0, 0, 1000 >>

\* Instance::from_position_rotation: the diagonal of the rotation times the
\* scale, every other element as it is; in millionths.
FromPositionRotation(position, rotation, scale, color) ==
    Instance(<< rotation[1] * scale, rotation[2] * 1000, rotation[3] * 1000, 0,
                rotation[4] * 1000, rotation[5] * scale, rotation[6] * 1000, 0,
                rotation[7] * 1000, rotation[8] * 1000, rotation[9] * scale, 0,
                position[1] * 1000, position[2] * 1000, position[3] * 1000, 1000000 >>,
             color)

\* DrawCommand::from_instance
FromInstance(mesh_type, instance) == DrawCommand(mesh_type, instance)

\* The rotations from_position_rotation is given.
InstanceRotations == BuilderRotations \cup {Mat3QuarterTurnZ}

\* DrawCommand::from_instance(mesh_type, Instance::from_position_rotation(
\* position, rotation, scale, color)); the builder holds the inputs.
FromPositionRotationCall ==
    \E position \in BuilderPositions, rotation \in InstanceRotations,
       scale \in BuilderScales, color \in BuilderColors \cup {<< 1000, 0, 0, 1000 >>} :
        /\ builder' = [builder EXCEPT !.position = position, !.rotation = rotation,
                                      !.scale = scale, !.color = color]
        /\ built' = FromInstance(builder.mesh_type,
                                 FromPositionRotation(position, rotation, scale, color))
        /\ UNCHANGED <<meshVars, renderVars, camVars, is_surface_configured,
                       is_scene_initialized, surface_config, mouse_state, fingers,
                       touch_event, uniforms, frame>>

\* The demo scene (main.rs:61-88): a sphere and three cubes.
SceneCommands ==
    << Build(WithColorU8(WithScale(WithPosition(DrawCommandBuilderNew("Sphere"),
                                                << 0, 0, 0 >>), 500),
                         << 255, 255, 255, 255 >>)),
       Build(WithColorU8(WithScale(WithPosition(DrawCommandBuilderNew("Cube"),
                                                << 4000, 0, 0 >>), 100),
                         << 255, 0, 0, 255 >>)),
       Build(WithColorU8(WithScale(WithPosition(DrawCommandBuilderNew("Cube"),
                                                << 0, 4000, 0 >>), 100),
                         << 0, 255, 0, 255 >>)),
       Build(WithColorU8(WithScale(WithPosition(DrawCommandBuilderNew("Cube"),
                                                << 0, 0, 4000 >>), 100),
                         << 0, 0, 255, 255 >>)) >>

\* The commands an application appends: the sphere and two cubes of the demo
\* scene, and one of a type that has no mesh.
AppendedCommands ==
    {SceneCommands[1], SceneCommands[2], SceneCommands[3],
     Build(WithScale(DrawCommandBuilderNew("Triangle"), 500))}

\* How many commands a frame's list holds at most.
MaxFrameCommands == 4

\* self.renderer.commands.push(command)
AppendCommand(command) ==
    /\ VecLen(commands) < MaxFrameCommands
    /\ commands' = PushRun(commands, command, 1)
    /\ call' = NoCall
    /\ frame' = NoFrame
    /\ UNCHANGED <<meshes, meshVars, camVars, is_surface_configured, is_scene_initialized,
                   surface_config, mouse_state, fingers, touch_event, uniforms, builder, built>>

\* ------------------------------------------------------------ Application

\* The uniform buffer as Renderer::from_winit fills it (renderer.rs:298-305):
\* aspect 2.0, the identity for a view.
InitialUniforms ==
    [view_proj |-> [proj |-> ProjMatrix(1047, 2000, 100, 1000000),
                    view |-> [identity |-> TRUE]]]

\* An update_uniforms that uploads nothing.
UniformsNotUploaded(held, cam) == held

\* Renderer::update_uniforms: view_proj = proj_matrix * view_matrix, held as
\* its two factors.
UpdateUniforms(held, cam) ==
    [view_proj |-> [proj |-> cam.proj_matrix, view |-> cam.view_matrix]]

\* MouseState::default()
MouseStateDefault ==
    [button_left |-> FALSE,
     button_right |-> FALSE,
     button_middle |-> FALSE,
     position |-> << 0, 0 >>,
     position_needs_update |-> FALSE,
     touches |-> [id \in {} |-> << 0, 0 >>]]

\* The State the handlers work on.
CurrentState ==
    [is_surface_configured |-> is_surface_configured,
     is_scene_initialized |-> is_scene_initialized,
     surface_config |-> surface_config,
     commands |-> commands,
     mouse_state |-> mouse_state,
     camera |-> camera,
     cam_call |-> cam_call,
     uniforms |-> uniforms]

\* The State a handler leaves.
Becomes(state) ==
    /\ is_surface_configured' = state.is_surface_configured
    /\ is_scene_initialized' = state.is_scene_initialized
    /\ surface_config' = state.surface_config
    /\ commands' = state.commands
    /\ mouse_state' = state.mouse_state
    /\ camera' = state.camera
    /\ cam_call' = state.cam_call
    /\ uniforms' = state.uniforms

\* camera.<op>(arg) followed by renderer.update_uniforms(&camera)
Mutated(state, op, arg, cam) ==
    [state EXCEPT !.camera = cam,
                  !.cam_call = CamCallRecord(op, arg, state.camera),
                  !.uniforms = UpdateUniforms(state.uniforms, cam)]

\* A scene that is appended whether or not the surface is configured.
EnsureSceneUnconfigured(state) ==
    IF state.is_scene_initialized
    THEN state
    ELSE [state EXCEPT
             !.commands = PushRun(PushRun(PushRun(PushRun(@,
                              SceneCommands[1], 1), SceneCommands[2], 1),
                              SceneCommands[3], 1), SceneCommands[4], 1),
             !.is_scene_initialized = TRUE]

\* A scene whose flag is never set.
EnsureSceneFlagNotSet(state) ==
    IF state.is_scene_initialized \/ ~state.is_surface_configured
    THEN state
    ELSE [state EXCEPT
             !.commands = PushRun(PushRun(PushRun(PushRun(@,
                              SceneCommands[1], 1), SceneCommands[2], 1),
                              SceneCommands[3], 1), SceneCommands[4], 1)]

\* A scene that is appended again at every frame.
EnsureSceneEveryFrame(state) ==
    IF ~state.is_surface_configured
    THEN state
    ELSE [state EXCEPT
             !.commands = PushRun(PushRun(PushRun(PushRun(@,
                              SceneCommands[1], 1), SceneCommands[2], 1),
                              SceneCommands[3], 1), SceneCommands[4], 1),
             !.is_scene_initialized = TRUE]

\* State::ensure_scene_initialized
EnsureSceneInitialized(state) ==
    IF state.is_scene_initialized \/ ~state.is_surface_configured
    THEN state
    ELSE [state EXCEPT
             !.commands = PushRun(PushRun(PushRun(PushRun(@,
                              SceneCommands[1], 1), SceneCommands[2], 1),
                              SceneCommands[3], 1), SceneCommands[4], 1),
             !.is_scene_initialized = TRUE]

\* const MAX_DIM: u32 = 2048 (main.rs:95)
MAX_DIM == 2048

\* Lines 96-102: the surface size for a window size, both in pixels.
SurfaceSize(width, height) ==
    LET larger == IF width > height THEN width ELSE height
        scale == IF width > MAX_DIM \/ height > MAX_DIM
                 THEN FDiv(MAX_DIM * 1000, larger * 1000)
                 ELSE 1000
    IN  << (width * scale) \div 1000, (height * scale) \div 1000 >>

\* State::resize
Resize(state, width, height) ==
    IF width > 0 /\ height > 0
    THEN LET window_size == SurfaceSize(width, height)
             configured == [state EXCEPT !.surface_config = window_size,
                                         !.is_surface_configured = TRUE]
             scene == EnsureSceneInitialized(configured)
         IN  Mutated(scene, "update_aspect", window_size,
                     UpdateAspect(scene.camera, window_size))
    ELSE state

\* WindowEvent::MouseWheel
OnMouseWheel(state, scroll) ==
    Mutated(state, "zoom", scroll, Zoom(state.camera, scroll))

\* WindowEvent::MouseInput
OnMouseInput(state, button, pressed) ==
    [state EXCEPT
        !.mouse_state.button_left = IF button = "Left" THEN pressed ELSE @,
        !.mouse_state.button_middle = IF button = "Middle" THEN pressed ELSE @,
        !.mouse_state.button_right = IF button = "Right" THEN pressed ELSE @,
        !.mouse_state.position_needs_update = TRUE]

\* position - mouse_state.position, as f32
DeltaTo(position, from) ==
    << (position[1] - from[1]) * 1000, (position[2] - from[2]) * 1000 >>

\* A pan that takes its delta from the position recorded before the event.
OnCursorMovedPanFromOld(state, position) ==
    IF state.mouse_state.position_needs_update
    THEN [state EXCEPT !.mouse_state.position = position,
                       !.mouse_state.position_needs_update = FALSE]
    ELSE LET mouse_delta == DeltaTo(position, state.mouse_state.position)
             orbited ==
                 IF state.mouse_state.button_left
                 THEN [Mutated(state, "orbit", mouse_delta,
                               Orbit(state.camera, mouse_delta))
                          EXCEPT !.mouse_state.position = position]
                 ELSE state
         IN  IF orbited.mouse_state.button_right
             THEN [Mutated(orbited, "pan", mouse_delta, Pan(orbited.camera, mouse_delta))
                      EXCEPT !.mouse_state.position = position]
             ELSE orbited

\* WindowEvent::CursorMoved
OnCursorMoved(state, position) ==
    IF state.mouse_state.position_needs_update
    THEN [state EXCEPT !.mouse_state.position = position,
                       !.mouse_state.position_needs_update = FALSE]
    ELSE LET orbit_delta == DeltaTo(position, state.mouse_state.position)
             orbited ==
                 IF state.mouse_state.button_left
                 THEN [Mutated(state, "orbit", orbit_delta,
                               Orbit(state.camera, orbit_delta))
                          EXCEPT !.mouse_state.position = position]
                 ELSE state
             pan_delta == DeltaTo(position, orbited.mouse_state.position)
         IN  IF orbited.mouse_state.button_right
             THEN [Mutated(orbited, "pan", pan_delta, Pan(orbited.camera, pan_delta))
                      EXCEPT !.mouse_state.position = position]
             ELSE orbited

\* BTreeMap::insert, BTreeMap::remove
Inserted(touches, id, location) ==
    [other \in DOMAIN touches \cup {id} |->
        IF other = id THEN location ELSE touches[other]]

Removed(touches, id) == [other \in DOMAIN touches \ {id} |-> touches[other]]

\* The first key of the BTreeMap, the first key that is not id.
FirstKey(keys) == CHOOSE key \in keys : \A other \in keys : key <= other

\* Vec2::distance, pixels in, thousandths out.
Spacing(a, b) ==
    FSqrt((a[1] - b[1]) * (a[1] - b[1]) + (a[2] - b[2]) * (a[2] - b[2])) * 1000

\* A three-finger pan that answers to any of the three touches.
OnTouchMovedPanByAny(state, id, location) ==
    LET before == state.mouse_state.touches
        touches == Inserted(before, id, location)
        inserted == [state EXCEPT !.mouse_state.touches = touches]
    IN  IF id \notin DOMAIN before
        THEN inserted
        ELSE [Mutated(inserted, "pan", DeltaTo(location, before[id]),
                      Pan(inserted.camera, DeltaTo(location, before[id])))
                 EXCEPT !.mouse_state.position = location]

\* WindowEvent::Touch, TouchPhase::Moved
OnTouchMoved(state, id, location) ==
    LET before == state.mouse_state.touches
        touches == Inserted(before, id, location)
        inserted == [state EXCEPT !.mouse_state.touches = touches]
    IN  IF id \notin DOMAIN before
        THEN inserted
        ELSE LET prev_pos == before[id]
                 primary_touch_key == FirstKey(DOMAIN touches)
             IN  IF Cardinality(DOMAIN touches) = 2
                 THEN LET other_id == FirstKey(DOMAIN touches \ {id})
                          prev_spc == Spacing(touches[other_id], prev_pos)
                          curr_spc == Spacing(touches[other_id], location)
                          scroll == FMul(curr_spc - prev_spc, 200)
                          zoomed == Mutated(inserted, "zoom", scroll,
                                            Zoom(inserted.camera, scroll))
                      IN  IF id = primary_touch_key
                          THEN [zoomed EXCEPT !.mouse_state.position = location]
                          ELSE zoomed
                 ELSE IF Cardinality(DOMAIN touches) = 3
                 THEN IF id = primary_touch_key
                      THEN [Mutated(inserted, "pan", DeltaTo(location, prev_pos),
                                    Pan(inserted.camera, DeltaTo(location, prev_pos)))
                               EXCEPT !.mouse_state.position = location]
                      ELSE inserted
                 ELSE [Mutated(inserted, "orbit", DeltaTo(location, prev_pos),
                               Orbit(inserted.camera, DeltaTo(location, prev_pos)))
                          EXCEPT !.mouse_state.position = location]

\* WindowEvent::Touch
OnTouch(state, id, location, phase) ==
    IF phase = "Started"
    THEN LET touches == Inserted(state.mouse_state.touches, id, location)
             inserted == [state EXCEPT !.mouse_state.touches = touches]
         IN  IF id \notin DOMAIN state.mouse_state.touches
                 /\ Cardinality(DOMAIN touches) = 1
             THEN [inserted EXCEPT !.mouse_state.position = location]
             ELSE inserted
    ELSE IF phase = "Moved"
    THEN OnTouchMoved(state, id, location)
    ELSE IF phase = "Ended"
    THEN [state EXCEPT !.mouse_state.touches = Removed(@, id)]
    ELSE state

\* What the window system hands the handlers.
AppWindowSizes == {<< 0, 600 >>, << 4096, 3072 >>, << 4096, 1 >>}

CursorPositions == {<< 100, 100 >>, << 300, 100 >>}

\* The touches: finger 1 at either position, fingers 2 and 3 held still.
TouchInputs == {<< 1, << 100, 100 >> >>, << 1, << 300, 100 >> >>,
                << 2, << 100, 100 >> >>, << 3, << 100, 100 >> >>}

WheelScrolls == {0, 40000}

MouseButtons == {"Left", "Right"}

\* How far a run of the application lets the camera go.
MaxDistance == 10000

AppBounded(cam) == Bounded(cam) /\ cam.distance <= MaxDistance

\* The handler of a touch event, which draws nothing; the touches in contact
\* become down.
HandledWith(state, down, event) ==
    /\ \E left \in {state} :
           /\ AppBounded(left.camera)
           /\ Becomes(left)
    /\ call' = NoCall
    /\ frame' = NoFrame
    /\ fingers' = down
    /\ touch_event' = event
    /\ UNCHANGED <<meshVars, meshes, builder, built>>

\* A handler that draws nothing.
Handled(state) == HandledWith(state, fingers, NoTouch)

\* The pointer is a mouse or a touch screen, one at a time.
MouseInUse ==
    mouse_state.button_left \/ mouse_state.button_right \/ mouse_state.position_needs_update

TouchInUse == DOMAIN mouse_state.touches # {}

\* WindowEvent::Resized
Resized(size) == Handled(Resize(CurrentState, size[1], size[2]))

\* WindowEvent::MouseInput
MouseInput(button, pressed) ==
    /\ ~TouchInUse
    /\ Handled(OnMouseInput(CurrentState, button, pressed))

\* WindowEvent::MouseWheel
MouseWheel(scroll) == Handled(OnMouseWheel(CurrentState, scroll))

\* WindowEvent::CursorMoved
CursorMoved(position) == Handled(OnCursorMoved(CurrentState, position))

\* The touches in contact once the screen has reported a phase of touch id:
\* a touch is in contact from Started until Ended or Cancelled.
FingersAfter(down, id, phase) ==
    IF phase \in {"Started", "Moved"} THEN down \cup {id} ELSE down \ {id}

\* WindowEvent::Touch
Touch(id, location, phase) ==
    /\ ~MouseInUse
    /\ HandledWith(OnTouch(CurrentState, id, location, phase),
                   FingersAfter(fingers, id, phase), NoTouch)

\* WindowEvent::Touch, the event kept for the gesture it selects.
TouchFollowed(id, location, phase) ==
    HandledWith(OnTouch(CurrentState, id, location, phase),
                FingersAfter(fingers, id, phase),
                [id |-> id, phase |-> phase])

\* WindowEvent::RedrawRequested: State::render, and a resize when the surface
\* is lost or outdated.
RedrawRequested ==
    LET scene == EnsureSceneInitialized(CurrentState)
    IN  IF ~scene.is_surface_configured
        THEN /\ Becomes(scene)
             /\ frame' = SkippedFrame
             /\ call' = NoCall
             /\ UNCHANGED <<meshVars, meshes, builder, built, fingers>>
             /\ touch_event' = NoTouch
        ELSE \/ \E order \in KeyOrders(meshes) :
                    \E result \in {SolidPassOver(meshes, scene.commands, order, Len(order))} :
                        /\ Becomes([scene EXCEPT !.commands = result.commands])
                        /\ meshes' = result.meshes
                        /\ frame' = Frame("solid", result, scene.uniforms)
                        /\ call' = NoCall
                        /\ UNCHANGED <<meshVars, builder, built, fingers>>
                        /\ touch_event' = NoTouch
             \/ \E size \in AppWindowSizes : Handled(Resize(scene, size[1], size[2]))
             \/ Handled(scene)

\* State::new, the renderer as from_winit leaves it.
AppNew ==
    /\ is_surface_configured = FALSE
    /\ is_scene_initialized = FALSE
    /\ surface_config = << 800, 600 >>
    /\ mouse_state = MouseStateDefault
    /\ fingers = {}
    /\ touch_event = NoTouch
    /\ uniforms = UpdateUniforms(InitialUniforms, CameraDefault)
    /\ frame = NoFrame
    /\ builder = DrawCommandBuilderNew("Cube")
    /\ built = NoCommand

\* The application's variables while no application is being followed.
AppIdle ==
    /\ is_surface_configured = FALSE
    /\ is_scene_initialized = FALSE
    /\ surface_config = << 800, 600 >>
    /\ mouse_state = MouseStateDefault
    /\ fingers = {}
    /\ touch_event = NoTouch
    /\ uniforms = InitialUniforms
    /\ frame = NoFrame
    /\ builder = DrawCommandBuilderNew("Cube")
    /\ built = NoCommand

\* ---------------------------------------------------------------- MeshSpec

MeshInit ==
    /\ RendererNew
    /\ AppIdle
    /\ camera = CameraDefault
    /\ cam_call = NoCamCall
    /\ kind \in {"Cube", "Tetrahedron", "Sphere"}
    /\ divisions \in 0..MaxDivisions
    /\ overflow_checks \in BOOLEAN
    /\ (kind # "Sphere") => (divisions = 0 /\ overflow_checks)
    /\ pc = "start"
    /\ idx = 0
    /\ i = 0
    /\ j = 0
    /\ top_index = 0
    /\ bottom_index = 0
    /\ vertices = <<>>
    /\ indices = <<>>
    /\ edge_indices = <<>>

MeshNext ==
    \/ NewCube
    \/ NewTetrahedron
    \/ SphereBegin
    \/ RingVertex
    \/ BottomPole
    \/ TopCap
    \/ MiddleQuads
    \/ BottomCap
    \/ EdgeSpokes
    \/ EdgeRings

MeshSpec == MeshInit /\ [][MeshNext]_vars

\* -------------------------------------------------------------- RenderSpec

RenderInit ==
    /\ MeshIdle
    /\ AppIdle
    /\ RendererNew
    /\ camera = CameraDefault
    /\ cam_call = NoCamCall

RenderNext ==
    \/ \E t \in PushTypes, n \in BatchSizes : PushCommands(t, n)
    \/ ClearCommands
    \/ \E t \in MeshType : RenderMesh(t)
    \/ \E t \in MeshType : RenderOutlineMesh(t)

RenderSpec == RenderInit /\ [][RenderNext]_vars

\* -------------------------------------------------------------- CameraSpec

CameraInit ==
    /\ MeshIdle
    /\ AppIdle
    /\ RendererNew
    /\ \E d \in StartDistances : camera = [CameraDefault EXCEPT !.distance = d]
    /\ cam_call = NoCamCall

CameraNext ==
    \/ \E s \in Scrolls : ZoomCall(s)

CameraSpec == CameraInit /\ [][CameraNext]_vars

\* ------------------------------------------------------------ PanOrbitSpec

PanOrbitInit ==
    /\ MeshIdle
    /\ AppIdle
    /\ RendererNew
    /\ camera = CameraDefault
    /\ cam_call = NoCamCall

PanOrbitNext ==
    \/ \E d \in Deltas : OrbitCall(d)
    \/ \E d \in Deltas : PanCall(d)
    \/ \E s \in PanScrolls : ZoomCall(s)
    \/ \E size \in WindowSizes : UpdateAspectCall(size)

PanOrbitSpec == PanOrbitInit /\ [][PanOrbitNext]_vars

\* --------------------------------------------------------------- BuildSpec

BuildInit ==
    /\ MeshIdle
    /\ RendererNew
    /\ camera = CameraDefault
    /\ cam_call = NoCamCall
    /\ is_surface_configured = FALSE
    /\ is_scene_initialized = FALSE
    /\ surface_config = << 800, 600 >>
    /\ mouse_state = MouseStateDefault
    /\ fingers = {}
    /\ touch_event = NoTouch
    /\ uniforms = InitialUniforms
    /\ frame = NoFrame
    /\ \E mesh_type \in MeshType : builder = DrawCommandBuilderNew(mesh_type)
    /\ built = NoCommand

BuildNext ==
    \/ WithCall
    \/ BuildCall

BuildSpec == BuildInit /\ [][BuildNext]_vars

\* --------------------------------------------------------------- FrameSpec

FrameInit ==
    /\ MeshIdle
    /\ RendererNew
    /\ camera = CameraDefault
    /\ cam_call = NoCamCall
    /\ AppIdle

FrameNext ==
    \/ \E command \in AppendedCommands : AppendCommand(command)
    \/ SolidRenderPass
    \/ OutlineRenderPass

FrameSpec == FrameInit /\ [][FrameNext]_vars

\* ------------------------------------------------------------ InstanceSpec

InstanceNext == FromPositionRotationCall

InstanceSpec == BuildInit /\ [][InstanceNext]_vars

\* --------------------------------------------------------------- IndexSpec

\* new_sphere past its vertex loops (lines 250-283): top_index = 0 and
\* bottom_index = idx after one pole and latitude - 1 rings of longitude.
IndexInit ==
    /\ RendererNew
    /\ AppIdle
    /\ camera = CameraDefault
    /\ cam_call = NoCamCall
    /\ kind = "Sphere"
    /\ divisions \in SphereSamples
    /\ overflow_checks = FALSE
    /\ pc = "top_cap"
    /\ idx = 1 + (divisions - 1) * 2 * divisions
    /\ i = 0
    /\ j = 0
    /\ top_index = 0
    /\ bottom_index = 1 + (divisions - 1) * 2 * divisions
    /\ vertices = <<>>
    /\ indices = <<>>
    /\ edge_indices = <<>>

IndexNext ==
    \/ \E jj \in SampleColumns : IndexTopCap(jj)
    \/ \E ii \in SampleRows, jj \in SampleColumns : IndexMiddle(ii, jj)
    \/ \E jj \in SampleColumns : IndexBottomCap(jj)
    \/ \E ii \in SampleTailRows, jj \in SampleColumns : IndexColumn(ii, jj)
    \/ \E ii \in SampleRings, jj \in SampleColumns : IndexRing(ii, jj)

IndexSpec == IndexInit /\ [][IndexNext]_vars

\* ----------------------------------------------------------------- AppSpec

AppInit ==
    /\ MeshIdle
    /\ RendererNew
    /\ camera = CameraDefault
    /\ cam_call = NoCamCall
    /\ AppNew

AppNext ==
    \/ \E size \in AppWindowSizes : Resized(size)
    \/ RedrawRequested
    \/ \E button \in MouseButtons, pressed \in BOOLEAN : MouseInput(button, pressed)
    \/ \E scroll \in WheelScrolls : MouseWheel(scroll)
    \/ \E position \in CursorPositions : CursorMoved(position)
    \/ \E touch \in TouchInputs, phase \in {"Started", "Moved", "Ended"} :
           Touch(touch[1], touch[2], phase)

AppSpec == AppInit /\ [][AppNext]_vars

\* --------------------------------------------------------------- TouchSpec

\* The touches of a screen that reports up to four fingers.
FourFingerInputs == TouchInputs \cup {<< 4, << 100, 100 >> >>}

\* The phases a touch goes through; the screen cancels the first touch only.
TouchPhases(id) ==
    {"Started", "Moved", "Ended"} \cup (IF id = 1 THEN {"Cancelled"} ELSE {})

TouchNext ==
    \E touch \in FourFingerInputs :
        \E phase \in TouchPhases(touch[1]) :
            TouchFollowed(touch[1], touch[2], phase)

TouchSpec == AppInit /\ [][TouchNext]_vars

\* ------------------------------------------------------ claims: the meshes

SphereDone == kind = "Sphere" /\ pc = "done"

\* C1: for every divisions d >= 2, new_sphere returns (no panic) with exactly
\* 2 + (d-1)*2d vertices, the north pole at index 0, the south pole at the
\* last index, every slot in between written by the ring loops (ring i,
\* column j at 1 + (i-1)*2d + j), and exactly 6*2d*(d-1) triangle indices.
C1_SphereCounts ==
    (kind = "Sphere" /\ divisions >= 2) =>
        /\ pc # "panic"
        /\ pc = "done" =>
            /\ Len(vertices) = 2 + (divisions - 1) * 2 * divisions
            /\ At(vertices, 0).kind = "top_pole"
            /\ At(vertices, Len(vertices) - 1).kind = "bottom_pole"
            /\ \A k \in 1..(Len(vertices) - 2) :
                  At(vertices, k) =
                      WrittenVertex("ring", 1 + (k - 1) \div (2 * divisions),
                                    (k - 1) % (2 * divisions))
            /\ Len(indices) = 6 * 2 * divisions * (divisions - 1)

C1_Witness ==
    SphereDone /\ divisions = 3 /\ Len(vertices) = 14 /\ Len(indices) = 72

\* C2: in every finished mesh (cube, tetrahedron, sphere with d >= 2) every
\* value of indices and of edge_indices is a valid position of that mesh's
\* vertex array.
C2_IndicesInRange ==
    (pc = "done" /\ (kind = "Sphere" => divisions >= 2)) =>
        /\ \A k \in 1..Len(indices) :
              indices[k] >= 0 /\ indices[k] < Len(vertices)
        /\ \A k \in 1..Len(edge_indices) :
              edge_indices[k] >= 0 /\ edge_indices[k] < Len(vertices)

C2_Witness ==
    /\ SphereDone
    /\ divisions >= 2
    /\ \E k \in 1..Len(indices) : indices[k] = Len(vertices) - 1
    /\ \E k \in 1..Len(edge_indices) : edge_indices[k] = Len(vertices) - 1

\* C3 as stated: for d >= 2 the number of entries pushed into edge_indices is
\* 2*longitude*((latitude-1) + longitude + (latitude-2)).
C3_EdgeCountAsStated ==
    (SphereDone /\ divisions >= 2) =>
        Len(edge_indices) =
            2 * longitude * ((latitude - 1) + longitude + (latitude - 2))

\* C3, amended: for d >= 2 the number of entries pushed into edge_indices is
\* 2*longitude*(2*latitude - 1): per column two pole spokes and latitude-2
\* verticals, plus latitude-1 rings of longitude segments, two entries each.
C3_EdgeCount ==
    (SphereDone /\ divisions >= 2) =>
        Len(edge_indices) = 2 * longitude * (2 * latitude - 1)

C3_Witness ==
    SphereDone /\ divisions = 4 /\ Len(edge_indices) = 112

\* The wireframe segments of the sphere, read off the vertices themselves:
\* pole to first/last ring, ring to next ring in the same column, and
\* neighbours (cyclically) in one ring.
IsWireSegment(u, v) ==
    LET a == At(vertices, u)
        b == At(vertices, v)
    IN  \/ a.kind = "top_pole" /\ b.kind = "ring" /\ b.i = 1
        \/ a.kind = "ring" /\ b.kind = "bottom_pole" /\ a.i = latitude - 1
        \/ a.kind = "ring" /\ b.kind = "ring" /\ b.i = a.i + 1 /\ b.j = a.j
        \/ a.kind = "ring" /\ b.kind = "ring" /\ b.i = a.i
              /\ b.j = (a.j + 1) % longitude

EdgePair(k) == {edge_indices[2 * k - 1], edge_indices[2 * k]}

\* C4: for d >= 2 the sphere's edge_indices, viewed as unordered vertex
\* pairs, hold each pole spoke, each ring-to-next-ring vertical and each
\* segment of every latitude ring exactly once, and nothing else.
C4_EdgesExact ==
    (SphereDone /\ divisions >= 2) =>
        LET n == Len(edge_indices) \div 2
            V == 0..(Len(vertices) - 1)
        IN  /\ Len(edge_indices) = 2 * n
            /\ \A k \in 1..n :
                  /\ EdgePair(k) \subseteq V
                  /\ \/ IsWireSegment(edge_indices[2 * k - 1], edge_indices[2 * k])
                     \/ IsWireSegment(edge_indices[2 * k], edge_indices[2 * k - 1])
            /\ \A k1, k2 \in 1..n : EdgePair(k1) = EdgePair(k2) => k1 = k2
            /\ \A u, v \in V :
                  IsWireSegment(u, v) => \E k \in 1..n : EdgePair(k) = {u, v}

C4_Witness ==
    /\ SphereDone
    /\ divisions = 3
    /\ \E k \in 1..(Len(edge_indices) \div 2) : EdgePair(k) = {6, 1}
    /\ \E k \in 1..(Len(edge_indices) \div 2) : EdgePair(k) = {1, 7}

\* C5 as stated: new_sphere with divisions < 2 fails and never returns a mesh.
C5_FailsBelowTwo ==
    (kind = "Sphere" /\ divisions < 2) => pc # "done"

\* ------------------------------------------- claims: the instance buffers

\* How many commands of the list are of mesh type t.
RECURSIVE CommandsOfType(_, _)
CommandsOfType(cmds, t) ==
    IF cmds = <<>>
    THEN 0
    ELSE (IF cmds[1].item.mesh_type = t THEN cmds[1].count ELSE 0)
             + CommandsOfType(Tail(cmds), t)

\* C * 2^k for the smallest k >= 1 with C * 2^k >= N.
SmallestDoubling(C, N) ==
    LET K == {k \in 1..16 : C * (2 ^ k) >= N}
    IN  C * (2 ^ (CHOOSE k \in K : \A m \in K : k <= m))

\* C6: a render_mesh call for a type with N instances and capacity C < N
\* leaves the capacity at C * 2^k for the smallest k >= 1 with C * 2^k >= N,
\* in a new buffer of that size; with N <= C it leaves the capacity and the
\* buffer as they are.
C6_GrowthStep ==
    [][\A t \in RegisteredMeshTypes :
          (call'.fn = "render_mesh" /\ call'.mesh_type = t) =>
              LET N == CommandsOfType(commands, t)
                  C == meshes[t].instance_capacity
              IN  IF C < N
                  THEN /\ meshes'[t].instance_capacity = SmallestDoubling(C, N)
                       /\ meshes'[t].instance_buffer.size = SmallestDoubling(C, N)
                       /\ meshes'[t].instance_buffer # meshes[t].instance_buffer
                  ELSE /\ meshes'[t].instance_capacity = C
                       /\ meshes'[t].instance_buffer = meshes[t].instance_buffer
      ]_vars

\* Growth by two doublings at once: 201 instances into the first buffer of 100.
C6_Witness ==
    /\ call.fn = "render_mesh"
    /\ call.wrote
    /\ call.drawn = 2 * DEFAULT_INSTANCE_CAPACITY + 1
    /\ meshes[call.mesh_type].instance_buffer.gen = 1
    /\ meshes[call.mesh_type].instance_capacity = 4 * DEFAULT_INSTANCE_CAPACITY

\* C7: over any sequence of frames each mesh's instance capacity never
\* decreases and is always DEFAULT_INSTANCE_CAPACITY (100) times a power of two.
C7_CapacityNeverShrinks ==
    /\ [](\A t \in RegisteredMeshTypes :
             \E k \in 0..16 :
                 meshes[t].instance_capacity = DEFAULT_INSTANCE_CAPACITY * (2 ^ k))
    /\ [][\A t \in RegisteredMeshTypes :
             meshes'[t].instance_capacity >= meshes[t].instance_capacity]_vars

\* A frame that draws fewer instances than the capacity an earlier frame
\* grew the buffer to.
C7_Witness ==
    /\ call.fn = "render_mesh"
    /\ call.wrote
    /\ call.drawn = DEFAULT_INSTANCE_CAPACITY
    /\ meshes[call.mesh_type].instance_capacity = 2 * DEFAULT_INSTANCE_CAPACITY
    /\ CommandsOfType(commands, call.mesh_type) = DEFAULT_INSTANCE_CAPACITY

\* C8: whenever a pass writes the instances of a type, it writes them to the
\* buffer the mesh holds after the growth check, whose size is the mesh's
\* capacity, and it writes no more instances than that buffer holds.
C8_WriteWithinBuffer ==
    call.wrote =>
        LET mesh == meshes[call.mesh_type]
            solid == call.fn = "render_mesh"
            held == IF solid THEN mesh.instance_buffer ELSE mesh.edge_instance_buffer
            capacity == IF solid THEN mesh.instance_capacity
                                 ELSE mesh.edge_instance_capacity
        IN  /\ call.fn \in {"render_mesh", "render_outline_mesh"}
            /\ call.buffer = held
            /\ call.buffer.size = capacity
            /\ VecLen(call.instances) <= call.buffer.size

\* A write that fills a buffer the growth check has just reallocated.
C8_Witness ==
    /\ call.wrote
    /\ call.fn = "render_mesh"
    /\ call.buffer.gen = 1
    /\ VecLen(call.instances) = 2 * DEFAULT_INSTANCE_CAPACITY
    /\ call.buffer.size = 2 * DEFAULT_INSTANCE_CAPACITY

SolidFields(mesh) == <<mesh.instance_capacity, mesh.instance_buffer>>

EdgeFields(mesh) == <<mesh.edge_instance_capacity, mesh.edge_instance_buffer>>

\* C9: render_mesh, growing or not, leaves the edge capacity and edge buffer
\* of every mesh as they are; render_outline_mesh leaves the solid capacity
\* and solid buffer of every mesh as they are and, when the type has more
\* instances than edge_instance_capacity E, leaves E * 2^k for the smallest
\* k >= 1 that reaches the count (E itself otherwise).
C9_IndependentBuffers ==
    [][/\ call'.fn = "render_mesh" =>
             \A t \in RegisteredMeshTypes : EdgeFields(meshes'[t]) = EdgeFields(meshes[t])
       /\ call'.fn = "render_outline_mesh" =>
             \A t \in RegisteredMeshTypes :
                 /\ SolidFields(meshes'[t]) = SolidFields(meshes[t])
                 /\ call'.mesh_type = t =>
                       LET N == CommandsOfType(commands, t)
                           E == meshes[t].edge_instance_capacity
                       IN  meshes'[t].edge_instance_capacity =
                               IF E < N THEN SmallestDoubling(E, N) ELSE E
      ]_vars

\* One mesh with the solid buffer grown and the edge buffer not, another the
\* other way round.
C9_Witness ==
    \E t, u \in RegisteredMeshTypes :
        /\ meshes[t].instance_capacity = 4 * DEFAULT_INSTANCE_CAPACITY
        /\ meshes[t].edge_instance_capacity = DEFAULT_INSTANCE_CAPACITY
        /\ meshes[u].instance_capacity = DEFAULT_INSTANCE_CAPACITY
        /\ meshes[u].edge_instance_capacity = 2 * DEFAULT_INSTANCE_CAPACITY

\* --------------------------------------------------- claims: the camera

\* distance_min <= distance <= distance_max
DistanceInRange(cam) ==
    /\ ~IsNaN(cam.distance)
    /\ cam.distance >= cam.distance_min
    /\ cam.distance <= cam.distance_max

\* C10 as stated: from any starting distance and for any scroll values, the
\* distance after each zoom call is within [distance_min, distance_max].
C10_ClampedAsStated ==
    cam_call.op = "zoom" => DistanceInRange(camera)

\* C10, amended: from a distance within [distance_min, distance_max], a zoom
\* call with a scroll value that is not NaN leaves the distance within
\* [distance_min, distance_max].
C10_ZoomKeepsRange ==
    [][(/\ cam_call'.op = "zoom"
        /\ ~IsNaN(cam_call'.arg)
        /\ DistanceInRange(camera))
           => DistanceInRange(camera')
      ]_vars

\* A zoom out past distance_max from within the range, clamped.
C10_Witness ==
    /\ cam_call.op = "zoom"
    /\ ~IsNaN(cam_call.arg)
    /\ DistanceInRange(cam_call.before)
    /\ FSub(cam_call.before.distance, FMul(cam_call.arg, cam_call.before.zoom_speed))
           > camera.distance_max
    /\ camera.distance = camera.distance_max

\* C11: zoom(0) is an exact no-op: after the call every camera field
\* (distance, view matrix, all the others) is what it was before the call.
C11_ZoomZeroNoOp ==
    (cam_call.op = "zoom" /\ cam_call.arg = 0) => camera = cam_call.before

\* zoom(0) on a camera whose distance lies outside the range: not even clamped.
C11_Witness ==
    /\ cam_call.op = "zoom"
    /\ cam_call.arg = 0
    /\ cam_call.before.distance > cam_call.before.distance_max
    /\ camera = cam_call.before

\* C12 as stated: pan with delta (0, 0) leaves target unchanged, from any
\* camera state reachable by orbit/pan/zoom calls.
C12_PanZeroAsStated ==
    (cam_call.op = "pan" /\ cam_call.arg = << 0, 0 >>) =>
        camera.target = cam_call.before.target

\* The angles and the distance are numbers.
AnglesAndDistanceFinite(cam) ==
    /\ ~IsNaN(cam.angle_yaw)
    /\ ~IsNaN(cam.angle_pitch)
    /\ ~IsNaN(cam.distance)

\* C12, amended: pan with delta (0, 0) leaves target unchanged from any
\* camera state reachable by orbit/pan/zoom calls in which angle_yaw,
\* angle_pitch and distance are finite (no earlier call was given NaN).
C12_PanZeroKeepsTarget ==
    (/\ cam_call.op = "pan"
     /\ cam_call.arg = << 0, 0 >>
     /\ AnglesAndDistanceFinite(cam_call.before))
        => camera.target = cam_call.before.target

\* pan(0, 0) after an orbit and a pan that moved the target away from the
\* origin.
C12_Witness ==
    /\ cam_call.op = "pan"
    /\ cam_call.arg = << 0, 0 >>
    /\ AnglesAndDistanceFinite(cam_call.before)
    /\ cam_call.before.angle_yaw # CameraDefault.angle_yaw
    /\ cam_call.before.target # << 0, 0, 0 >>
    /\ camera.target = cam_call.before.target

\* width / height as update_aspect is to use it
ExpectedAspect(size) ==
    IF size[1] = 0 \/ size[2] = 0 THEN 1000 ELSE (size[1] * 1000) \div size[2]

RECURSIVE Elements(_)
Elements(vec) ==
    IF vec = <<>>
    THEN <<>>
    ELSE [k \in 1..vec[1].count |-> vec[1].item] \o Elements(Tail(vec))

\* The command is among the instances of a draw of its type in the frame.
DrawnIn(command, drawn_frame) ==
    \E drawn \in DOMAIN drawn_frame.calls :
        /\ drawn.mesh_type = command.mesh_type
        /\ drawn.wrote
        /\ \E k \in 1..Len(Elements(drawn.instances)) :
               Elements(drawn.instances)[k] = command.instance

HasCommandOf(cmds, t) == \E k \in 1..Len(cmds) : cmds[k].item.mesh_type = t

\* C15: when the frame's command list contains a command of a primitive
\* type with no registered geometry (MeshType::Triangle), the pass emits a
\* diagnostic for that type (and skips it without aborting the frame).
C15_DiagnosticEmitted ==
    (frame.pass # "none" /\ HasCommandOf(commands, "Triangle") /\ "Triangle" \notin DOMAIN meshes)
        => \E warning \in DOMAIN frame.warnings : warning.mesh_type = "Triangle"

\* The commands of one mesh type, in the order of the list.
CommandSeqOfType(cmds, t) ==
    LET OfType(command) == command.mesh_type = t
    IN  SelectSeq(Elements(cmds), OfType)

\* The draws the frame issued for one mesh type.
DrawsOfType(drawn_frame, t) ==
    {drawn \in DOMAIN drawn_frame.calls : drawn.mesh_type = t}

\* C16: in each pass, for every primitive type with a registered mesh,
\* exactly one indexed draw is issued, its instance count is the number of
\* commands of that type, its instance list follows the command order, and
\* in the solid pass the instances uploaded are exactly those of the
\* commands of that type (no command is drawn under another type).
C16_OneDrawPerType ==
    frame.pass # "none" =>
        /\ \A drawn \in DOMAIN frame.calls :
               frame.calls[drawn] = 1 /\ drawn.mesh_type \in DOMAIN meshes
        /\ \A t \in DOMAIN meshes :
               /\ Cardinality(DrawsOfType(frame, t)) = 1
               /\ \A drawn \in DrawsOfType(frame, t) :
                      LET of_type == CommandSeqOfType(commands, t)
                          uploaded == Elements(drawn.instances)
                      IN  /\ drawn.wrote
                          /\ drawn.drawn = Len(of_type)
                          /\ Len(uploaded) = Len(of_type)
                          /\ frame.pass = "solid" =>
                                 \A k \in 1..Len(of_type) : uploaded[k] = of_type[k].instance

\* A solid pass over a list with two different cubes, a sphere and a
\* command of a type without a mesh: the cubes are drawn in one draw, in
\* the order they were appended.
C16_Witness ==
    /\ frame.pass = "solid"
    /\ VecLen(commands) = 4
    /\ HasCommandOf(commands, "Triangle")
    /\ HasCommandOf(commands, "Sphere")
    /\ \E drawn \in DrawsOfType(frame, "Cube") :
           /\ drawn.drawn = 2
           /\ Elements(drawn.instances) =
                  << SceneCommands[3].instance, SceneCommands[2].instance >>

\* Mat4::from_scale(Vec3::splat(1.005)) in two-hundredths, column-major.
OutlineScale ==
    << 201, 0, 0, 0,   0, 201, 0, 0,   0, 0, 201, 0,   0, 0, 0, 200 >>

\* The product a * b of two 4x4 matrices, both column-major, b in units of
\* 1/unit: entry (row, col) is the sum over k of a(row, k) * b(k, col).
RECURSIVE DotRowCol(_, _, _, _, _)
DotRowCol(a, b, row, col, k) ==
    IF k = 0
    THEN 0
    ELSE DotRowCol(a, b, row, col, k - 1) + a[4 * (k - 1) + row] * b[4 * (col - 1) + k]

MatTimes(a, b, unit) ==
    [e \in 1..16 |-> DotRowCol(a, b, ((e - 1) % 4) + 1, ((e - 1) \div 4) + 1, 4) \div unit]

\* C17: in the outline pass every command of the type being drawn gives an
\* outline instance with color (1, 1, 1, 1) and model matrix equal to the
\* command's model matrix times the uniform scale 1.005, in command order,
\* and there are as many outline instances as solid instances of the type.
C17_OutlineInstances ==
    frame.pass = "outline" =>
        \A drawn \in DOMAIN frame.calls :
            LET of_type == CommandSeqOfType(commands, drawn.mesh_type)
                uploaded == Elements(drawn.instances)
            IN  /\ Len(uploaded) = VecLen(SolidInstances(commands, drawn.mesh_type))
                /\ Len(uploaded) = Len(of_type)
                /\ \A k \in 1..Len(of_type) :
                       /\ uploaded[k].color = << 1000, 1000, 1000, 1000 >>
                       /\ uploaded[k].model_matrix =
                              MatTimes(of_type[k].instance.model_matrix, OutlineScale, 200)

\* An outline pass over a list with the red cube at (4, 0, 0): its outline
\* instance is white, scaled to 0.1005 and still at (4, 0, 0).
C17_Witness ==
    /\ frame.pass = "outline"
    /\ \E drawn \in DrawsOfType(frame, "Cube") :
           /\ drawn.drawn = 2
           /\ SceneCommands[2].instance.color = << 1000, 0, 0, 1000 >>
           /\ \E k \in 1..2 :
                  /\ Elements(drawn.instances)[k].color = << 1000, 1000, 1000, 1000 >>
                  /\ Elements(drawn.instances)[k].model_matrix =
                         << 100500, 0, 0, 0,   0, 100500, 0, 0,   0, 0, 100500, 0,
                            4000000, 0, 0, 1000000 >>

\* C18: the outline derivation is not persisted. An outline pass leaves the
\* command list as it was, every command still carrying the instance the
\* application appended, so the next pass derives from the original
\* instances again (the 1.005 scale does not compound).
C18_OutlineNotPersisted ==
    [][frame'.pass = "outline" =>
          /\ commands' = commands
          /\ \A k \in 1..Len(commands') : commands'[k].item \in AppendedCommands]_vars

\* After an outline pass the list still holds the red cube with its scale
\* 0.1 and its color, while the pass drew it white at scale 0.1005.
C18_Witness ==
    /\ frame.pass = "outline"
    /\ \E k \in 1..Len(commands) : commands[k].item = SceneCommands[2]
    /\ SceneCommands[2].instance.model_matrix[1] = 100000
    /\ \E drawn \in DrawsOfType(frame, "Cube") :
           \E k \in 1..Len(Elements(drawn.instances)) :
               /\ Elements(drawn.instances)[k].model_matrix[1] = 100500
               /\ Elements(drawn.instances)[k].model_matrix[13] = 4000000

\* The 4x4 matrices of a uniform scale and of a rotation, in thousandths,
\* and of a translation, in halves (its vector in thousandths).
ScaleMatrix(scale) ==
    << scale, 0, 0, 0,   0, scale, 0, 0,   0, 0, scale, 0,   0, 0, 0, 1000 >>

RotationMatrix(m) ==
    << m[1], m[2], m[3], 0,   m[4], m[5], m[6], 0,   m[7], m[8], m[9], 0,
       0, 0, 0, 1000 >>

TranslationMatrix(v) ==
    << 2, 0, 0, 0,   0, 2, 0, 0,   0, 0, 2, 0,
       v[1] \div 500, v[2] \div 500, v[3] \div 500, 2 >>

\* T * R * S in millionths: R * S in millionths, then T from the left.
ComposedTRS(position, rotation, scale) ==
    LET rs == MatTimes(RotationMatrix(rotation), ScaleMatrix(scale), 1)
        t == TranslationMatrix(position)
    IN  [e \in 1..16 |->
            DotRowCol(t, rs, ((e - 1) % 4) + 1, ((e - 1) \div 4) + 1, 4) \div 2]

\* The builder of the scenario: Cube at (4, 0, 0), scale 0.1, color_u8
\* (255, 0, 0, 255), rotation not set.
ScenarioBuilder ==
    [mesh_type |-> "Cube", position |-> << 4000, 0, 0 >>, rotation |-> Mat3Identity,
     scale |-> 100, color |-> << 1000, 0, 0, 1000 >>]

\* How many fields of the builder a step changed.
FieldsChanged(old, new) ==
    Cardinality({field \in {"mesh_type", "position", "rotation", "scale", "color"} :
                    old[field] # new[field]})

\* C19: build gives the command of the builder's type whose model matrix
\* is T * R * S of the builder's position, rotation and scale and whose
\* color is the builder's, 8-bit channels having been divided by 255; each
\* with_* call sets one field and leaves the others as they were (the
\* defaults when never set); a builder left at its defaults builds the
\* identity matrix and white; the scenario's cube has translation column
\* (4, 0, 0, 1), 3x3 block 0.1 * I and color (1, 0, 0, 1).
C19_BuildComposesTRS ==
    [][/\ FieldsChanged(builder, builder') <= 1
       /\ builder'.mesh_type = builder.mesh_type
       /\ \A k \in 1..4 : builder'.color[k] \in 0..1000
       /\ built' # NoCommand =>
              /\ built'.mesh_type = builder'.mesh_type
              /\ built'.instance.color = builder'.color
              /\ built'.instance.model_matrix =
                     ComposedTRS(builder'.position, builder'.rotation, builder'.scale)
              /\ builder' = DrawCommandBuilderNew(builder'.mesh_type) =>
                     /\ built'.instance.color = << 1000, 1000, 1000, 1000 >>
                     /\ built'.instance.model_matrix =
                            << 1000000, 0, 0, 0,   0, 1000000, 0, 0,
                               0, 0, 1000000, 0,   0, 0, 0, 1000000 >>
              /\ builder' = ScenarioBuilder =>
                     /\ built'.instance.color = << 1000, 0, 0, 1000 >>
                     /\ built'.instance.model_matrix =
                            << 100000, 0, 0, 0,   0, 100000, 0, 0,
                               0, 0, 100000, 0,   4000000, 0, 0, 1000000 >>]_vars

\* The scenario's cube, built.
C19_Witness ==
    /\ builder = ScenarioBuilder
    /\ built = DrawCommand("Cube", DemoInstance)

\* proj_matrix * view_matrix of the camera as it is, the view being that of
\* the camera's target, distance and angles.
CurrentViewProj(cam) ==
    [proj |-> cam.proj_matrix,
     view |-> ViewMatrix(cam.target, cam.distance, cam.angle_yaw, cam.angle_pitch)]

\* C20: no stale transform is rendered. After every event of the loop the
\* uploaded view-projection is proj_matrix * view_matrix of the camera's
\* current state (every orbit, pan, zoom and update_aspect was followed by
\* update_uniforms), and a frame rendered at RedrawRequested is bound to it.
C20_NoStaleTransform ==
    /\ camera.view_matrix =
           ViewMatrix(camera.target, camera.distance, camera.angle_yaw, camera.angle_pitch)
    /\ uniforms.view_proj = CurrentViewProj(camera)
    /\ frame.pass = "solid" => frame.view_proj = CurrentViewProj(camera)

\* A frame rendered after a resize, an orbit, a pan and a zoom moved the
\* camera: it is bound to the camera's current transform, which is neither
\* the default camera's nor the initial content of the uniform buffer.
C20_Witness ==
    /\ frame.pass = "solid"
    /\ camera.proj_matrix.aspect = 1333
    /\ camera.angle_yaw # CameraDefault.angle_yaw
    /\ camera.target # CameraDefault.target
    /\ camera.distance # CameraDefault.distance
    /\ frame.view_proj = CurrentViewProj(camera)
    /\ frame.view_proj # InitialUniforms.view_proj

\* C21: a frame skipped because the surface is not configured leaves the
\* state as it was: State::render returns Ok without drawing and changes
\* neither the command list, nor any mesh (capacities and buffers), nor the
\* camera, nor the scene-initialized flag, nor anything else of the State.
C21_SkippedFrameChangesNothing ==
    [][frame'.pass = "skipped" =>
          /\ ~is_surface_configured
          /\ frame'.calls = BagOf(<< >>)
          /\ commands' = commands
          /\ meshes' = meshes
          /\ camera' = camera
          /\ is_scene_initialized' = is_scene_initialized
          /\ is_surface_configured' = is_surface_configured
          /\ uniforms' = uniforms
          /\ mouse_state' = mouse_state]_vars

\* A frame skipped before the first resize, after the pointer has already
\* moved the camera: no scene yet, nothing drawn.
C21_Witness ==
    /\ frame.pass = "skipped"
    /\ ~is_surface_configured
    /\ ~is_scene_initialized
    /\ commands = << >>
    /\ camera.angle_yaw # CameraDefault.angle_yaw

\* f32::consts::FRAC_PI_2, in thousandths of a radian.
FRAC_PI_2 == 1571

\* The pitch is a number within the camera's pitch bounds.
PitchInRange(cam) ==
    /\ ~IsNaN(cam.angle_pitch)
    /\ cam.angle_pitch >= cam.angle_pitch_min
    /\ cam.angle_pitch <= cam.angle_pitch_max

\* The call recomputed the view: every orbit and pan, a zoom whose scroll
\* is not zero.
RecomputedView ==
    \/ cam_call.op \in {"orbit", "pan"}
    \/ cam_call.op = "zoom" /\ cam_call.arg # 0

\* C22 as stated: after default() and after every orbit, pan or zoom call
\* that recomputes the view, angle_pitch lies within the pitch bounds.
C22_PitchAsStated ==
    (cam_call.op = "none" \/ RecomputedView) => PitchInRange(camera)

\* C22, amended: the pitch bounds are strictly inside -90 and +90 degrees;
\* after default() and after every orbit, pan or zoom call that recomputes
\* the view, angle_pitch lies within them unless it is NaN, and it is NaN
\* only once an orbit was given a NaN dy; orbit changes yaw by
\* -dx * mouse_speed and pitch by +dy * mouse_speed before the clamp and
\* changes neither target nor distance.
C22_PitchClamped ==
    /\ camera.angle_pitch_min > -FRAC_PI_2
    /\ camera.angle_pitch_max < FRAC_PI_2
    /\ (cam_call.op = "none" \/ RecomputedView) =>
           (IsNaN(camera.angle_pitch) \/ PitchInRange(camera))
    /\ cam_call.op = "none" => PitchInRange(camera)
    /\ (cam_call.op \in {"pan", "zoom"} /\ PitchInRange(cam_call.before)) =>
           PitchInRange(camera)
    /\ cam_call.op = "orbit" =>
           LET dx == cam_call.arg[1]
               dy == cam_call.arg[2]
               was == cam_call.before
               raised == IF IsNaN(dy) \/ IsNaN(was.angle_pitch)
                         THEN NaN
                         ELSE was.angle_pitch + (dy * 5) \div 1000
           IN  /\ camera.target = was.target
               /\ camera.distance = was.distance
               /\ camera.angle_yaw =
                      IF IsNaN(dx) \/ IsNaN(was.angle_yaw)
                      THEN NaN
                      ELSE was.angle_yaw - (dx * 5) \div 1000
               /\ IsNaN(raised) => IsNaN(camera.angle_pitch)
               /\ ~IsNaN(raised) =>
                      /\ PitchInRange(camera)
                      /\ raised > was.angle_pitch_max => camera.angle_pitch = was.angle_pitch_max
                      /\ raised < was.angle_pitch_min => camera.angle_pitch = was.angle_pitch_min
                      /\ (raised >= was.angle_pitch_min /\ raised <= was.angle_pitch_max)
                             => camera.angle_pitch = raised

\* An orbit whose dy would carry the pitch below the lower bound: the pitch
\* stops at the bound, the yaw turns by -dx * mouse_speed.
C22_Witness ==
    /\ cam_call.op = "orbit"
    /\ cam_call.arg = << 200000, -400000 >>
    /\ cam_call.before.angle_pitch - 2000 < cam_call.before.angle_pitch_min
    /\ camera.angle_pitch = camera.angle_pitch_min
    /\ camera.angle_yaw = cam_call.before.angle_yaw - 1000

\* C23: for every resize(width, height) with width > 0 and height > 0 both
\* dimensions update_aspect receives (the configured surface width and
\* height) are at least 1 and at most 2048.
C23_DimensionsInRange ==
    cam_call.op = "update_aspect" =>
        /\ cam_call.arg = surface_config
        /\ cam_call.arg[1] \in 1..MAX_DIM
        /\ cam_call.arg[2] \in 1..MAX_DIM

\* The directed edges of the triangle list, one per index: from the index
\* at position k to the next index of the same triangle.
EdgeFrom(k) == indices[k]

EdgeTo(k) == indices[IF k % 3 = 0 THEN k - 2 ELSE k + 1]

\* How many times the directed edge (u, v) occurs in the triangle list.
Occurrences(u, v) ==
    Cardinality({k \in 1..Len(indices) : EdgeFrom(k) = u /\ EdgeTo(k) = v})

\* C24: for divisions >= 2 the sphere's triangle list is a closed,
\* consistently wound surface: each triangle has three distinct vertices,
\* every vertex is used, and every directed edge of a triangle occurs in
\* exactly one triangle while its reverse occurs in exactly one other.
C24_ClosedConsistentSurface ==
    (kind = "Sphere" /\ pc = "done" /\ divisions >= 2) =>
        /\ Len(indices) = NIndices
        /\ \A k \in 1..Len(indices) :
               /\ EdgeFrom(k) # EdgeTo(k)
               /\ EdgeFrom(k) \in 0..(Len(vertices) - 1)
               /\ Occurrences(EdgeFrom(k), EdgeTo(k)) = 1
               /\ Occurrences(EdgeTo(k), EdgeFrom(k)) = 1
        /\ \A v \in 0..(Len(vertices) - 1) : \E k \in 1..Len(indices) : indices[k] = v

\* A finished sphere with two caps and two middle bands.
C24_Witness ==
    /\ kind = "Sphere"
    /\ pc = "done"
    /\ divisions = 4
    /\ Len(indices) = 144
    /\ Len(vertices) = 26

\* Where the vertex loops store the vertex of ring r (1 .. latitude - 1),
\* column c: after the top pole and the r - 1 rings before it.
RingVertexAt(r, c) == 1 + (r - 1) * longitude + c

\* The vertices one iteration of an index loop is to reference, by where
\* the vertex loops stored them, in usize.
IntendedIndices ==
    LET next == (j + 1) % longitude
        poles == [top |-> 0, bottom |-> RingVertexAt(latitude, 0)]
    IN  IF pc = "top_cap"
        THEN << poles.top, RingVertexAt(1, next), RingVertexAt(1, j) >>
        ELSE IF pc = "middle"
        THEN << RingVertexAt(i + 1, j), RingVertexAt(i + 1, next), RingVertexAt(i + 2, j),
                RingVertexAt(i + 1, next), RingVertexAt(i + 2, next), RingVertexAt(i + 2, j) >>
        ELSE IF pc = "bottom_cap"
        THEN << RingVertexAt(latitude - 1, j), RingVertexAt(latitude - 1, next), poles.bottom >>
        ELSE IF pc = "edge_rings"
        THEN << RingVertexAt(i, j), RingVertexAt(i, next) >>
        ELSE << poles.top, RingVertexAt(1, j) >>
                 \o [k \in 1..(2 * (MiddleRows - i)) |-> RingVertexAt(i + 1 + (k \div 2), j)]
                 \o << RingVertexAt(latitude - 1, j), poles.bottom >>

\* What the iteration stored, as u16.
StoredIndices == IF pc \in {"edge_spokes", "edge_rings"} THEN edge_indices ELSE indices

C26_SameAsBuild ==
    built # NoCommand =>
        /\ built.instance.color = builder.color
        /\ built.instance.model_matrix =
               ComposedTRS(builder.position, builder.rotation, builder.scale)

\* The flags and the command list agree: no scene before the surface is
\* configured, an empty list before the scene is initialized, one sphere
\* and three cubes after.
SceneOnce(configured, initialized, cmds) ==
    /\ initialized => configured
    /\ ~initialized => cmds = << >>
    /\ initialized =>
           /\ VecLen(cmds) = 4
           /\ Len(CommandSeqOfType(cmds, "Sphere")) = 1
           /\ Len(CommandSeqOfType(cmds, "Cube")) = 3

\* C27: across any sequence of events the demo scene's four commands are
\* pushed exactly once and only after the surface has been configured:
\* is_scene_initialized implies is_surface_configured, neither flag
\* reverts to false, and the command list has length 0 before and exactly
\* 4 (1 sphere, 3 cubes) after initialization.
C27_SceneInitializedOnce ==
    [][/\ SceneOnce(is_surface_configured, is_scene_initialized, commands)
       /\ SceneOnce(is_surface_configured', is_scene_initialized', commands')
       /\ is_surface_configured => is_surface_configured'
       /\ is_scene_initialized => (is_scene_initialized' /\ commands' = commands)]_vars

\* After two resizes and a rendered frame the scene is there once.
C27_Witness ==
    /\ frame.pass = "solid"
    /\ is_scene_initialized
    /\ is_surface_configured
    /\ surface_config = << 2048, 1536 >>
    /\ cam_call.op = "update_aspect"
    /\ cam_call.before.proj_matrix.aspect = 1000
    /\ VecLen(commands) = 4

\* C28: the touches the application tracks are exactly the touches in
\* contact with the screen; once every touch that Started has Ended or been
\* Cancelled the map of tracked touches is empty.
C28_TrackedAreDown == DOMAIN mouse_state.touches = fingers

\* The touches tracked, before and after a step.
Tracked == DOMAIN mouse_state.touches

TrackedAfter == DOMAIN mouse_state'.touches

\* A step in which the camera operation op is called.
Calls(op) == cam_call' # cam_call /\ cam_call'.op = op

\* A step that handles a Moved event of a touch that is tracked, or not.
MovedTracked == touch_event'.phase = "Moved" /\ touch_event'.id \in Tracked

MovedUntracked == touch_event'.phase = "Moved" /\ touch_event'.id \notin Tracked

\* The delta of the touch the step moved.
MovedDelta ==
    DeltaTo(mouse_state'.touches[touch_event'.id], mouse_state.touches[touch_event'.id])

\* Zoom and pan are called as the count of tracked touches says, and an
\* untracked touch calls nothing.
ZoomPanByCount ==
    /\ cam_call' # cam_call => MovedTracked
    /\ Calls("zoom") => (Cardinality(TrackedAfter) = 2 /\ camera' = Zoom(camera, cam_call'.arg))
    /\ Calls("pan") =>
           /\ Cardinality(TrackedAfter) = 3
           /\ touch_event'.id = FirstKey(TrackedAfter)
           /\ cam_call'.arg = MovedDelta
           /\ camera' = Pan(camera, MovedDelta)
    /\ (MovedTracked /\ Cardinality(TrackedAfter) = 3
           /\ touch_event'.id # FirstKey(TrackedAfter)) => camera' = camera
    /\ MovedUntracked => (cam_call' = cam_call /\ camera' = camera)

MouseStep == Tracked = {} /\ TrackedAfter = {}

\* The delta from the recorded pointer position to the one the step records.
PointerDelta == DeltaTo(mouse_state'.position, mouse_state.position)

\* The step is the first CursorMoved after a button event.
FirstMove == mouse_state.position_needs_update /\ ~mouse_state'.position_needs_update

\* C30: a mouse button press or release sets position_needs_update; the
\* CursorMoved that clears it only records the position and calls no camera
\* operation. With the flag clear, orbit is called only while the left
\* button is held and pan only while the right one is, each with the delta
\* from the recorded position to the pointer; with both held orbit comes
\* first and records the position, so pan receives a zero delta.
C30_MouseHandling ==
    [][/\ (mouse_state'.button_left # mouse_state.button_left
            \/ mouse_state'.button_right # mouse_state.button_right) =>
              /\ mouse_state'.position_needs_update
              /\ camera' = camera /\ cam_call' = cam_call
       /\ FirstMove =>
              /\ camera' = camera /\ cam_call' = cam_call
              /\ mouse_state' = [mouse_state EXCEPT
                                    !.position = mouse_state'.position,
                                    !.position_needs_update = FALSE]
       /\ (MouseStep /\ Calls("orbit")) =>
              /\ mouse_state.button_left /\ ~mouse_state.button_right
              /\ ~mouse_state.position_needs_update
              /\ cam_call' = CamCallRecord("orbit", PointerDelta, camera)
              /\ camera' = Orbit(camera, PointerDelta)
       /\ (MouseStep /\ Calls("pan")) =>
              /\ mouse_state.button_right
              /\ ~mouse_state.position_needs_update
              /\ cam_call' =
                     IF mouse_state.button_left
                     THEN CamCallRecord("pan", << 0, 0 >>, Orbit(camera, PointerDelta))
                     ELSE CamCallRecord("pan", PointerDelta, camera)
              /\ camera' = Pan(cam_call'.before, cam_call'.arg)
       /\ (MouseStep /\ (camera' # camera \/ cam_call' # cam_call)
              /\ ~mouse_state.button_left /\ ~mouse_state.button_right) =>
              cam_call'.op \in {"zoom", "update_aspect"}]_vars

\* Both buttons are held, the pointer has moved 200 pixels to the right of
\* the recorded position, and the pan that followed the orbit got no delta.
C30_Witness ==
    /\ mouse_state.touches = << >>
    /\ mouse_state.button_left /\ mouse_state.button_right
    /\ ~mouse_state.position_needs_update
    /\ mouse_state.position = << 300, 100 >>
    /\ cam_call.op = "pan"
    /\ cam_call.arg = << 0, 0 >>
    /\ cam_call.before.angle_yaw = CameraDefault.angle_yaw - 1000
    /\ camera = Pan(cam_call.before, << 0, 0 >>)

============================================================================
